---- MODULE Spec2Model ----
(***************************************************************************)
(* Client-side session layer of the e-learning front end:                  *)
(*   - the token helpers and the auth operations of ApiClient (lib/api.ts) *)
(*   - AuthProvider (contexts/AuthContext.tsx): boot restoration           *)
(*     (checkAuthStatus), login and logout.                                *)
(*                                                                         *)
(* Scheduling is the browser's: one logical thread, every handler runs to  *)
(* its first pending network call, and the continuation of an awaited call *)
(* (gateway continuation, then the AuthProvider continuation) runs as one  *)
(* uninterrupted chain when the response has been read.  Each operation is *)
(* therefore two actions: XStart (code up to the fetch) and XSettle (the   *)
(* response with everything the code does after it).                       *)
(* A call whose URL fetch cannot parse sends nothing: fetch rejects, and   *)
(* the whole call, catch and finally included, is one action.              *)
(***************************************************************************)
EXTENDS Naturals, Integers, Sequences, FiniteSets, Bags, TLC

\* ---------------------------------------------------------------- bounds
\* calls (login, logout, gateway operations) that may be in flight at the
\* same time, the who-am-i call of the restoration not counted
MaxInFlight == 2
\* the counter of completed logout calls saturates here
MaxLogoutsCounted == 2

\* ---------------------------------------------------------------- values
\* localStorage.getItem returns null for a missing key
NoToken == "null"
\* useState<User | null>(null)
NoUser == "null"
\* a field that a JSON body does not carry
Undefined == "undefined"

Tokens == {"t1", "t2"}
Users == {"u1", "u2"}

\* User.role, and the role of no user
Roles == {"ADMIN", "INSTRUCTOR", "STUDENT"}
NoRole == "none"

\* JavaScript truthiness of a string-or-missing value: null, undefined and
\* the empty string are falsy
Truthy(x) == x \notin {NoToken, Undefined, ""}

\* the accessToken field of a login response body
AccessTokenValues == Tokens \cup {"", Undefined}
\* the message field of a JSON error body
MessageValues == {Undefined, "", "Invalid credentials"}

\* ------------------------------------------------------------- responses
\* What fetch and response.json() can produce for one request:
\*   net     fetch itself rejected (no response)
\*   status  HTTP status of the response
\*   json    the body is parseable JSON
\*   message the message field of the parsed body
NetworkFailure == [net |-> TRUE, status |-> 0, json |-> FALSE, message |-> Undefined]

HttpResponses ==
    {NetworkFailure}
    \cup [net : {FALSE}, status : {401}, json : {TRUE}, message : MessageValues]
    \cup [net : {FALSE}, status : {401, 500}, json : {FALSE}, message : {Undefined}]
    \cup [net : {FALSE}, status : {200}, json : BOOLEAN, message : {Undefined}]

\* const API_BASE_URL
ApiBaseUrl == "http://localhost:3000"

\* The endpoint that the gateway method called by caller c appends to
\* API_BASE_URL (uploadCourseMaterial and downloadCourseMaterial write
\* theirs into the template of the URL): whether it starts with a slash,
\* and what follows.  The callers are the handlers of the views and, for
\* the two account operations, the methods themselves.
EndpointOf(c) ==
    CASE c = "handleAcceptEnrollment" ->
             [slash |-> TRUE, path |-> "student/accept/:courseId"]
      [] c = "handleRejectEnrollment" ->
             [slash |-> TRUE, path |-> "courses/reject/:courseId"]
      [] c = "handleDropCourse" ->
             [slash |-> TRUE, path |-> "student/drop/:courseId"]
      [] c = "handleCreateCourse" -> [slash |-> TRUE, path |-> "courses"]
      [] c = "handleUpdateCourse" -> [slash |-> TRUE, path |-> "courses/:id"]
      [] c = "handleDeleteCourse" -> [slash |-> TRUE, path |-> "courses/:id"]
      [] c = "handleUploadMaterial" ->
             [slash |-> TRUE, path |-> "courses/:courseId/materials"]
      [] c = "handleDownloadMaterial" ->
             [slash |-> TRUE,
              path |-> "courses/:courseId/materials/:materialId/download"]
      [] c = "handleDeleteMaterial" ->
             [slash |-> TRUE, path |-> "courses/:courseId/materials/:materialId"]
      [] c = "handleInviteStudent" ->
             [slash |-> FALSE,
              path |-> "instructor/courses/:courseId/students/:studentId/invite"]
      [] c = "handleKickStudent" ->
             [slash |-> FALSE,
              path |-> "instructor/courses/:courseId/students/:studentId/kick"]
      [] c = "handleCompleteCourse" ->
             [slash |-> TRUE, path |-> "courses/:courseId/complete"]
      [] c = "updateProfile" -> [slash |-> FALSE, path |-> "users/profile"]
      [] c = "deleteMyAccount" -> [slash |-> FALSE, path |-> "users/delete"]

\* const url = `${API_BASE_URL}${endpoint}`
UrlOf(endpoint) ==
    ApiBaseUrl \o (IF endpoint.slash THEN "/" ELSE "") \o endpoint.path

\* fetch can parse the URL: after host and port comes the path, which
\* starts with "/", or nothing.  "http://localhost:3000users/delete" has no
\* valid port and is rejected with a TypeError before anything is sent.
UrlParses(endpoint) == endpoint.slash \/ endpoint.path = ""

\* message of the TypeError that fetch rejects with
UrlError(endpoint) == "Failed to parse URL from " \o UrlOf(endpoint)

\* the body of a response that carries no user (resp. no accessToken)
NoBodyUser == "null"
NoBodyToken == Undefined

\* Response.ok
ResponseOk(r) == r.status >= 200 /\ r.status <= 299

\* ApiClient.request throws
RequestFails(r) == r.net \/ ~ResponseOk(r) \/ ~r.json

\* the responses on which ApiClient.request throws, and those it returns
FailedResponses == {r \in HttpResponses : RequestFails(r)}
OkResponses == {r \in HttpResponses : ~RequestFails(r)}

\* message of the Error that ApiClient.request throws
RequestError(r) ==
    IF r.net THEN "Failed to fetch"
    ELSE IF ~ResponseOk(r)
         THEN LET errorData == IF r.json THEN r.message ELSE Undefined
              IN  IF Truthy(errorData) THEN errorData
                  ELSE "HTTP error! status: " \o ToString(r.status)
         ELSE "Unexpected end of JSON input"

\* ----------------------------------------------------------------- state
VARIABLES
    token,          \* localStorage["access_token"]
    user,           \* AuthProvider user
    loading,        \* AuthProvider loading (the spec's isInitializing)
    restorePc,      \* checkAuthStatus: "init", "awaitMe", "done"
    loginInFlight,  \* login() calls awaiting apiClient.login
    logoutInFlight, \* logout() calls awaiting apiClient.logout
    lastOp,         \* the step most recently taken and what it produced
    bootToken,      \* the token that was in storage when the app started
    meRequests,     \* GET /auth/me requests issued so far
    restoreAssigns, \* setUser calls made by checkAuthStatus so far
    popSince,       \* a user or token was written since the last logout() call
    logoutsDone,    \* logout() calls that have completed (saturating)
    gatewayError,   \* message of the error that the ApiClient operation settled
                    \* by the last step threw to its caller ("" when it returned)
    route,          \* router: the current location
    role,           \* user.role of the AuthProvider user
    rendered,       \* what the route element of the current location rendered
    lastRedirect,   \* target of the last <Navigate> followed since the user
                    \* last chose a location himself
    view,           \* the page shown: its name and the state of its component
    pending,        \* bag of the requests of views awaiting their response
    gwOp,           \* the step most recently taken by a handler or a loader
    mounted,        \* AdminDashboard is mounted
    crashed,        \* a render threw and React unmounted the whole tree
    es,             \* the EventSource of this mount: "none", "open", "closed"
    recentEvents,   \* AdminDashboard recentEvents, most recent first
    received,       \* well-formed events delivered to this mount so far
    leaked,         \* EventSources of earlier mounts that are still open
    streamOp,       \* the step of the event stream most recently taken
    chatMounted,    \* a CourseChat is mounted
    courseId,       \* CourseChat prop courseId
    enrollmentStatus, \* CourseChat prop userEnrollmentStatus
    socket,         \* CourseChat state socket
    connectedSockets, \* ids of the sockets opened by this mount and not disconnected
    joinState,      \* where the join of the socket last opened stands
    messages,       \* CourseChat state messages
    newMessage,     \* CourseChat state newMessage
    chatLoading,    \* CourseChat state loading
    socketsOpened,  \* sockets opened by the current (or else the last) mount
    joinsEmitted,   \* joinCourse events emitted by that mount
    chatOp,         \* the step of the chat most recently taken
    dashLoading,    \* AdminDashboard state loading
    analytics,      \* AdminDashboard state analytics
    users,          \* AdminDashboard state users
    loads,          \* loadDashboardData calls with a request still out
    mutations,      \* createInstructor / deleteUser requests in flight
    spent,          \* mounts, handler calls and well-formed events so far
    latest,         \* the loadDashboardData call most recently made by the
                    \* mounted instance, and how it ended
    staleWrite,     \* a continuation has called a state setter of an
                    \* instance after it was unmounted
    dashOp          \* the step of the dashboard most recently taken

sessionVars == <<token, user, loading, restorePc, loginInFlight, logoutInFlight,
                 lastOp, bootToken,
                 meRequests, restoreAssigns, popSince, logoutsDone, gatewayError>>

guardVars == <<route, role, rendered, lastRedirect>>

gatewayVars == <<view, pending, gwOp>>

streamVars == <<mounted, crashed, es, recentEvents, received, leaked, streamOp>>

chatVars == <<chatMounted, courseId, enrollmentStatus, socket, connectedSockets,
              joinState, messages, newMessage, chatLoading, socketsOpened,
              joinsEmitted, chatOp>>

dashVars == <<dashLoading, analytics, users,
              loads, mutations, spent, latest, staleWrite, dashOp>>

vars == <<sessionVars, guardVars, gatewayVars, streamVars, chatVars, dashVars>>

NoToast == [title |-> "", description |-> ""]
Toast(t, d) == [title |-> t, description |-> d]

\* a step that handles no response
NoResponse == [net |-> FALSE, status |-> 0, json |-> FALSE, message |-> Undefined]

\* no page with handlers is shown
NoView ==
    [page |-> "none", loading |-> FALSE, course |-> FALSE, loaded |-> FALSE,
     selectedFile |-> "null", materialTitle |-> "", selectedStudentId |-> "null"]

\* no gateway step of a view handler, and no step of the event stream, yet
NoGwOp ==
    [op |-> "none", handler |-> "none", tokenAtIssue |-> NoToken,
     authorization |-> Undefined, contentType |-> Undefined,
     response |-> NoResponse, error |-> "", toast |-> NoToast]
NoStreamOp == [op |-> "none", payload |-> "none", toast |-> NoToast]

\* no socket (the null of useState<Socket | null>), nothing emitted, and no
\* step of the chat yet; the payload of an emit is courseId for joinCourse
\* and join-course, and {courseId, userId, username, text} for
\* sendCourseMessage (text is a sequence of characters)
NoSocket == [id |-> 0, course |-> 0]
NoEmit ==
    [event |-> "none", courseId |-> 0, userId |-> Undefined,
     username |-> Undefined, text |-> <<>>]
NoChatOp == [op |-> "none", emit |-> NoEmit, delivered |-> "none", toast |-> NoToast]

\* record of a step: the operation, the response it handled and whether the
\* request succeeded, the user and accessToken of the response body, the
\* error raised to the caller ("" when none is raised) and the toast shown
Op(op, r, ok, u, t, err, toast) ==
    [op |-> op, response |-> r, ok |-> ok, user |-> u, accessToken |-> t,
     error |-> err, toast |-> toast]

SessionInit ==
    /\ token \in Tokens \cup {NoToken}
    /\ user = NoUser
    /\ loading = TRUE
    /\ restorePc = "init"
    /\ loginInFlight = 0
    /\ logoutInFlight = 0
    /\ lastOp = Op("init", NoResponse, TRUE, NoUser, Undefined, "", NoToast)
    /\ bootToken = token
    /\ meRequests = 0
    /\ restoreAssigns = 0
    /\ popSince = FALSE
    /\ logoutsDone = 0
    /\ gatewayError = ""

\* every in-flight counter, for UNCHANGED
inFlight == <<loginInFlight, logoutInFlight>>
\* calls awaiting their response
InFlightTotal == loginInFlight + logoutInFlight

\* ------------------------------------------------- boot: checkAuthStatus
\* Variant of RestoreStart without the `if (token)` test: it always asks the
\* server.  C4 must fail on it.
RestoreStart_AlwaysAsks ==
    /\ restorePc = "init"
    /\ restorePc' = "awaitMe"
    /\ meRequests' = meRequests + 1
    /\ lastOp' = Op("restoreStart", NoResponse, TRUE, NoUser, Undefined, "", NoToast)
    /\ gatewayError' = ""
    /\ UNCHANGED <<token, user, loading, inFlight, bootToken, restoreAssigns,
                   popSince, logoutsDone>>

\* The effect of AuthProvider runs checkAuthStatus once, after the first
\* render: with no token it finishes at once, with a token it issues
\* GET /auth/me and suspends.
RestoreStart ==
    /\ restorePc = "init"
    /\ IF Truthy(token)
       THEN /\ restorePc' = "awaitMe"
            /\ meRequests' = meRequests + 1
            /\ UNCHANGED <<user, loading, restoreAssigns>>
       ELSE /\ user' = NoUser
            /\ loading' = FALSE
            /\ restorePc' = "done"
            /\ restoreAssigns' = restoreAssigns + 1
            /\ UNCHANGED meRequests
    /\ lastOp' = Op("restoreStart", NoResponse, TRUE, NoUser, Undefined, "", NoToast)
    /\ gatewayError' = ""
    /\ UNCHANGED <<token, inFlight, bootToken, popSince, logoutsDone>>

\* Variant of RestoreSettle whose catch does not remove the token.  C3 must
\* fail on it.
RestoreSettle_KeepsToken(r, u) ==
    /\ restorePc = "awaitMe"
    /\ IF RequestFails(r)
       THEN /\ user' = NoUser
            /\ UNCHANGED <<token, popSince>>
       ELSE /\ user' = u
            /\ popSince' = TRUE
            /\ UNCHANGED token
    /\ loading' = FALSE
    /\ restorePc' = "done"
    /\ restoreAssigns' = restoreAssigns + 1
    /\ lastOp' = Op("restoreSettle", r, ~RequestFails(r),
                    IF RequestFails(r) THEN NoUser ELSE u, Undefined, "", NoToast)
    /\ gatewayError' = (IF RequestFails(r) THEN RequestError(r) ELSE "")
    /\ UNCHANGED <<inFlight, bootToken, meRequests, logoutsDone>>

\* Variant of RestoreSettle that calls setLoading(false) inside the try only.
\* C8 must fail on it.
RestoreSettle_HangsOnFailure(r, u) ==
    /\ restorePc = "awaitMe"
    /\ IF RequestFails(r)
       THEN /\ token' = NoToken
            /\ user' = NoUser
            /\ UNCHANGED <<popSince, loading>>
       ELSE /\ user' = u
            /\ popSince' = TRUE
            /\ loading' = FALSE
            /\ UNCHANGED token
    /\ restorePc' = "done"
    /\ restoreAssigns' = restoreAssigns + 1
    /\ lastOp' = Op("restoreSettle", r, ~RequestFails(r),
                    IF RequestFails(r) THEN NoUser ELSE u, Undefined, "", NoToast)
    /\ gatewayError' = (IF RequestFails(r) THEN RequestError(r) ELSE "")
    /\ UNCHANGED <<inFlight, bootToken, meRequests, logoutsDone>>

\* the who-am-i call settles with response r (body u when it succeeds)
RestoreSettle(r, u) ==
    /\ restorePc = "awaitMe"
    /\ IF RequestFails(r)
       THEN \* catch: removeTokenFromStorage(); setUser(null)
            /\ token' = NoToken
            /\ user' = NoUser
            /\ UNCHANGED popSince
       ELSE \* setUser(userData)
            /\ user' = u
            /\ popSince' = TRUE
            /\ UNCHANGED token
    /\ loading' = FALSE
    /\ restorePc' = "done"
    /\ restoreAssigns' = restoreAssigns + 1
    /\ lastOp' = Op("restoreSettle", r, ~RequestFails(r),
                    IF RequestFails(r) THEN NoUser ELSE u, Undefined, "", NoToast)
    /\ gatewayError' = (IF RequestFails(r) THEN RequestError(r) ELSE "")
    /\ UNCHANGED <<inFlight, bootToken, meRequests, logoutsDone>>

\* -------------------------------------------------------------- login()
\* Variant of LoginStart that calls setLoading(true) while the login is in
\* flight.  C9 must fail on it.
LoginStart_ShowsLoading ==
    /\ restorePc # "init"
    /\ InFlightTotal < MaxInFlight
    /\ loginInFlight' = loginInFlight + 1
    /\ loading' = TRUE
    /\ lastOp' = Op("loginStart", NoResponse, TRUE, NoUser, Undefined, "", NoToast)
    /\ gatewayError' = ""
    /\ UNCHANGED <<token, user, restorePc, logoutInFlight, bootToken, meRequests, restoreAssigns,
                   popSince, logoutsDone>>

\* login(username, password) up to the fetch of POST /auth/login.  LoginForm
\* is a public route inside AuthProvider, so login can be invoked at any
\* time after the first render, also while the restoration is in flight.
LoginStart ==
    /\ restorePc # "init"
    /\ InFlightTotal < MaxInFlight
    /\ loginInFlight' = loginInFlight + 1
    /\ lastOp' = Op("loginStart", NoResponse, TRUE, NoUser, Undefined, "", NoToast)
    /\ gatewayError' = ""
    /\ UNCHANGED <<token, user, loading, restorePc, logoutInFlight, bootToken, meRequests, restoreAssigns,
                   popSince, logoutsDone>>

\* Variant of ApiLoginToken that does not overwrite a stored token.  C2 must
\* fail on it.
ApiLoginToken_KeepsStored(t, tok) == IF Truthy(tok) THEN tok ELSE t

\* ApiClient.login after the request: the token in storage, given the
\* accessToken t of the response body and the token tok stored before
ApiLoginToken(t, tok) == IF Truthy(t) THEN t ELSE tok

\* Variant of LoginSettle whose catch de-authenticates.  C5 must fail on it.
LoginSettle_ClearsOnFailure(r, u, t) ==
    /\ loginInFlight > 0
    /\ loginInFlight' = loginInFlight - 1
    /\ IF RequestFails(r)
       THEN /\ token' = NoToken
            /\ user' = NoUser
            /\ lastOp' = Op("loginSettle", r, FALSE, NoUser, Undefined, RequestError(r),
                            Toast("Error", RequestError(r)))
            /\ UNCHANGED popSince
       ELSE /\ token' = ApiLoginToken(t, token)
            /\ user' = u
            /\ popSince' = TRUE
            /\ lastOp' = Op("loginSettle", r, TRUE, u, t, "",
                            Toast("Success", "Logged in successfully"))
    /\ gatewayError' = (IF RequestFails(r) THEN RequestError(r) ELSE "")
    /\ UNCHANGED <<loading, restorePc, logoutInFlight, bootToken, meRequests, restoreAssigns, logoutsDone>>

\* a login call settles with response r; body {user: u, accessToken: t}
LoginSettle(r, u, t) ==
    /\ loginInFlight > 0
    /\ loginInFlight' = loginInFlight - 1
    /\ IF RequestFails(r)
       THEN \* catch: toast the error's message and rethrow it
            /\ lastOp' = Op("loginSettle", r, FALSE, NoUser, Undefined, RequestError(r),
                            Toast("Error", RequestError(r)))
            /\ UNCHANGED <<token, user, popSince>>
       ELSE \* apiClient.login stored the token; setUser(response.user)
            /\ token' = ApiLoginToken(t, token)
            /\ user' = u
            /\ popSince' = TRUE
            /\ lastOp' = Op("loginSettle", r, TRUE, u, t, "",
                            Toast("Success", "Logged in successfully"))
    /\ gatewayError' = (IF RequestFails(r) THEN RequestError(r) ELSE "")
    /\ UNCHANGED <<loading, restorePc, logoutInFlight, bootToken, meRequests, restoreAssigns, logoutsDone>>

\* ------------------------------------------------------------- logout()
\* ApiClient.logout once its request has settled with response r, the token
\* tok being stored: the token then in storage (the finally block removes
\* it) and the message of the error thrown to the caller ("" when none)
ApiLogout(r, tok) ==
    [token |-> NoToken,
     error |-> IF RequestFails(r) THEN RequestError(r) ELSE ""]

\* logout() up to the fetch of POST /auth/logout; the context hands logout
\* to every component
LogoutStart ==
    /\ restorePc # "init"
    /\ InFlightTotal < MaxInFlight
    /\ logoutInFlight' = logoutInFlight + 1
    /\ popSince' = FALSE
    /\ lastOp' = Op("logoutStart", NoResponse, TRUE, NoUser, Undefined, "", NoToast)
    /\ gatewayError' = ""
    /\ UNCHANGED <<token, user, loading, restorePc, loginInFlight, bootToken, meRequests, restoreAssigns, logoutsDone>>

\* Variant of LogoutSettle with neither the finally of ApiClient.logout nor
\* the catch of AuthProvider.logout.  C1 must fail on it.
LogoutSettle_OnlyOnSuccess(r) ==
    /\ logoutInFlight > 0
    /\ logoutInFlight' = logoutInFlight - 1
    /\ IF RequestFails(r)
       THEN /\ UNCHANGED <<token, user>>
            /\ lastOp' = Op("logoutSettle", r, FALSE, NoUser, Undefined, "", NoToast)
       ELSE /\ token' = NoToken
            /\ user' = NoUser
            /\ lastOp' = Op("logoutSettle", r, TRUE, NoUser, Undefined, "",
                            Toast("Success", "Logged out successfully"))
    /\ logoutsDone' = IF logoutsDone < MaxLogoutsCounted THEN logoutsDone + 1
                      ELSE logoutsDone
    /\ gatewayError' = ApiLogout(r, token).error
    /\ UNCHANGED <<loading, restorePc, loginInFlight, bootToken, meRequests, restoreAssigns, popSince>>

\* Variant of LogoutSettle whose catch does not call setUser(null).  C6 must
\* fail on it.
LogoutSettle_KeepsUserOnFailure(r) ==
    /\ logoutInFlight > 0
    /\ logoutInFlight' = logoutInFlight - 1
    /\ token' = NoToken
    /\ user' = IF RequestFails(r) THEN user ELSE NoUser
    /\ lastOp' = Op("logoutSettle", r, ~RequestFails(r), NoUser, Undefined, "",
                    IF RequestFails(r) THEN NoToast
                    ELSE Toast("Success", "Logged out successfully"))
    /\ logoutsDone' = IF logoutsDone < MaxLogoutsCounted THEN logoutsDone + 1
                      ELSE logoutsDone
    /\ gatewayError' = ApiLogout(r, token).error
    /\ UNCHANGED <<loading, restorePc, loginInFlight, bootToken, meRequests, restoreAssigns, popSince>>

\* Variant of LogoutSettle whose catch reports the failure: it shows an error
\* toast and rethrows to the caller.  C32 must fail on it.
LogoutSettle_RaisesOnFailure(r) ==
    /\ logoutInFlight > 0
    /\ logoutInFlight' = logoutInFlight - 1
    /\ token' = IF ApiLogout(r, token).error # "" THEN NoToken ELSE ApiLogout(r, token).token
    /\ user' = NoUser
    /\ lastOp' = Op("logoutSettle", r, ~RequestFails(r), NoUser, Undefined,
                    IF RequestFails(r) THEN RequestError(r) ELSE "",
                    IF RequestFails(r) THEN Toast("Error", RequestError(r))
                    ELSE Toast("Success", "Logged out successfully"))
    /\ logoutsDone' = IF logoutsDone < MaxLogoutsCounted THEN logoutsDone + 1
                      ELSE logoutsDone
    /\ gatewayError' = ApiLogout(r, token).error
    /\ UNCHANGED <<loading, restorePc, loginInFlight, bootToken, meRequests, restoreAssigns, popSince>>

\* a logout call settles with response r: ApiClient.logout removes the token
\* in its finally block; AuthProvider.logout clears the user on success and,
\* in its catch, removes the token again and clears the user
LogoutSettle(r) ==
    /\ logoutInFlight > 0
    /\ logoutInFlight' = logoutInFlight - 1
    /\ token' = IF ApiLogout(r, token).error # ""
                THEN NoToken                   \* catch: removeTokenFromStorage()
                ELSE ApiLogout(r, token).token
    /\ user' = NoUser
    /\ lastOp' = Op("logoutSettle", r, ~RequestFails(r), NoUser, Undefined, "",
                    IF RequestFails(r) THEN NoToast
                    ELSE Toast("Success", "Logged out successfully"))
    /\ logoutsDone' = IF logoutsDone < MaxLogoutsCounted THEN logoutsDone + 1
                      ELSE logoutsDone
    /\ gatewayError' = ApiLogout(r, token).error
    /\ UNCHANGED <<loading, restorePc, loginInFlight, bootToken, meRequests, restoreAssigns, popSince>>

\* ------------------------------------------- other gateway operations
\* Variant of ApiDeleteMyAccount that removes the token after the request
\* instead of in a finally block.  C12 must fail on it.
ApiDeleteMyAccount_OnlyOnSuccess(tok) ==
    [token |-> IF UrlParses(EndpointOf("deleteMyAccount")) THEN NoToken ELSE tok,
     error |-> IF UrlParses(EndpointOf("deleteMyAccount")) THEN ""
               ELSE UrlError(EndpointOf("deleteMyAccount"))]

\* ApiClient.deleteMyAccount called with the token tok stored: the token
\* then in storage and the message of the error thrown to the caller.
\* request() is given "users/delete": the URL does not parse, fetch rejects
\* before anything is sent, and the finally block removes the token.
ApiDeleteMyAccount(tok) ==
    [token |-> NoToken,
     error |-> IF UrlParses(EndpointOf("deleteMyAccount")) THEN ""
               ELSE UrlError(EndpointOf("deleteMyAccount"))]

\* apiClient.deleteMyAccount() is called (the gateway is a module-level
\* object that any code can call at any time, whatever the session); the
\* call ends within the step (no request leaves)
DeleteMyAccount ==
    /\ ~UrlParses(EndpointOf("deleteMyAccount"))
    /\ token' = ApiDeleteMyAccount(token).token
    /\ lastOp' = Op("deleteMyAccount", NoResponse, FALSE, NoUser, Undefined,
                    ApiDeleteMyAccount(token).error, NoToast)
    /\ gatewayError' = ApiDeleteMyAccount(token).error
    /\ UNCHANGED <<user, loading, restorePc, loginInFlight, logoutInFlight,
                   bootToken, meRequests, restoreAssigns, popSince, logoutsDone>>

\* Variant of UpdateProfile whose failure clears the session user.  C10 must
\* fail on it.
UpdateProfile_ClearsUser ==
    /\ ~UrlParses(EndpointOf("updateProfile"))
    /\ user' = NoUser
    /\ lastOp' = Op("updateProfile", NoResponse, FALSE, NoUser, Undefined,
                    UrlError(EndpointOf("updateProfile")), NoToast)
    /\ gatewayError' = UrlError(EndpointOf("updateProfile"))
    /\ UNCHANGED <<token, loading, restorePc, loginInFlight, logoutInFlight,
                   bootToken, meRequests, restoreAssigns, popSince, logoutsDone>>

\* Variant of UpdateProfile whose failure deletes the stored token.  C11
\* must fail on it.
UpdateProfile_DropsToken ==
    /\ ~UrlParses(EndpointOf("updateProfile"))
    /\ token' = NoToken
    /\ lastOp' = Op("updateProfile", NoResponse, FALSE, NoUser, Undefined,
                    UrlError(EndpointOf("updateProfile")), NoToast)
    /\ gatewayError' = UrlError(EndpointOf("updateProfile"))
    /\ UNCHANGED <<user, loading, restorePc, loginInFlight, logoutInFlight,
                   bootToken, meRequests, restoreAssigns, popSince, logoutsDone>>

\* apiClient.updateProfile(...) is called, at any time: request() is
\* given "users/profile", the URL does not parse, fetch rejects before
\* anything is sent and the error reaches the caller; neither the token nor
\* the session is written
UpdateProfile ==
    /\ ~UrlParses(EndpointOf("updateProfile"))
    /\ lastOp' = Op("updateProfile", NoResponse, FALSE, NoUser, Undefined,
                    UrlError(EndpointOf("updateProfile")), NoToast)
    /\ gatewayError' = UrlError(EndpointOf("updateProfile"))
    /\ UNCHANGED <<token, user, loading, restorePc, loginInFlight, logoutInFlight,
                   bootToken, meRequests, restoreAssigns, popSince, logoutsDone>>

\* --------------------------------------------------------- specification
SessionNext ==
    \/ RestoreStart
    \/ \E r \in FailedResponses : RestoreSettle(r, NoBodyUser)
    \/ \E r \in OkResponses, u \in Users : RestoreSettle(r, u)
    \/ LoginStart
    \/ \E r \in FailedResponses : LoginSettle(r, NoBodyUser, NoBodyToken)
    \/ \E r \in OkResponses, u \in Users, t \in AccessTokenValues : LoginSettle(r, u, t)
    \/ LogoutStart
    \/ \E r \in HttpResponses : LogoutSettle(r)
    \/ DeleteMyAccount
    \/ UpdateProfile

\* the session on its own: the router stays on the login page
GuardAtRest ==
    /\ route = "/login"
    /\ role = NoRole
    /\ rendered = "Public"
    /\ lastRedirect = "none"

\* the session on its own: no view handler has called the gateway
GatewayAtRest ==
    /\ view = NoView
    /\ pending = EmptyBag
    /\ gwOp = NoGwOp

\* the session on its own: the admin dashboard is not mounted
StreamAtRest ==
    /\ mounted = FALSE
    /\ crashed = FALSE
    /\ es = "none"
    /\ recentEvents = <<>>
    /\ received = 0
    /\ leaked = 0
    /\ streamOp = NoStreamOp

\* the session on its own: no course page shows a chat
ChatAtRest ==
    /\ chatMounted = FALSE
    /\ courseId = 0
    /\ enrollmentStatus = Undefined
    /\ socket = NoSocket
    /\ connectedSockets = {}
    /\ joinState = "none"
    /\ messages = <<>>
    /\ newMessage = <<>>
    /\ chatLoading = TRUE
    /\ socketsOpened = 0
    /\ joinsEmitted = 0
    /\ chatOp = NoChatOp

\* ------------------------------------------------- admin dashboard values
\* the accounts an admin can create or delete
Accounts == {"inst1", "stud1"}
AccountRole(a) == IF a = "inst1" THEN "INSTRUCTOR" ELSE "STUDENT"

\* useState<AnalyticsData>({totalUsers: 0, ...})
NoAnalytics ==
    [totalUsers |-> 0, totalInstructors |-> 0, totalStudents |-> 0,
     totalCourses |-> 0]

\* one of the two requests of a loadDashboardData call: sent, then arrived
\* with what it settled with
NoSub ==
    [st |-> "sent", ok |-> FALSE, usable |-> FALSE, total |-> 0, data |-> {}]

NoLatest == [seq |-> 0, outcome |-> "none", data |-> {}]

NoDashOp ==
    [op |-> "none", seq |-> 0, sub |-> "none", outcome |-> "none",
     live |-> FALSE,
     usersResp |-> NoSub, coursesResp |-> NoSub, loadToasts |-> 0,
     toast |-> NoToast]

\* the session on its own: no admin dashboard is mounted
DashAtRest ==
    /\ dashLoading = TRUE
    /\ analytics = NoAnalytics
    /\ users = {}
    /\ loads = {}
    /\ mutations = {}
    /\ spent = 0
    /\ latest = NoLatest
    /\ staleWrite = FALSE
    /\ dashOp = NoDashOp

Init ==
    /\ SessionInit
    /\ GuardAtRest
    /\ GatewayAtRest
    /\ StreamAtRest
    /\ ChatAtRest
    /\ DashAtRest

Next == SessionNext /\ UNCHANGED <<guardVars, gatewayVars, streamVars, chatVars, dashVars>>

Spec == Init /\ [][Next]_vars

\* The network answers: a restoration that can start starts, and an awaited
\* who-am-i call resolves or rejects.
FairSpec ==
    /\ Spec
    /\ WF_vars(RestoreStart /\ UNCHANGED <<guardVars, gatewayVars, streamVars, chatVars, dashVars>>)
    /\ WF_vars(/\ \E r \in HttpResponses, u \in Users \cup {NoBodyUser} : RestoreSettle(r, u)
               /\ UNCHANGED <<guardVars, gatewayVars, streamVars, chatVars, dashVars>>)

\* no restore, login or logout call is in flight
Quiescent ==
    /\ restorePc = "done"
    /\ loginInFlight = 0
    /\ logoutInFlight = 0

\* the error body of response r carries a message
CarriesMessage(r) == ~r.net /\ r.json /\ Truthy(r.message)

\* ------------------------------------------------------------------ C1
\* C1: in the state a logout() call leaves when it completes, currentUser is
\* empty and no token is stored, whether POST /auth/logout succeeded or
\* failed (network failure, non-success status, unreadable body) and whatever
\* the session was before.
C1_LogoutClearsSession ==
    lastOp.op = "logoutSettle" => (user = NoUser /\ token = NoToken)

\* a logout whose server call failed has completed in an app that booted
\* with a stored token
C1_Witness ==
    /\ lastOp.op = "logoutSettle"
    /\ ~lastOp.ok
    /\ lastOp.response.net
    /\ bootToken \in Tokens
    /\ logoutsDone = 1

\* ------------------------------------------------------------------ C2
\* C2: in the state a login() call leaves when it completes with a successful
\* response {user, accessToken} carrying an access token, currentUser is the
\* returned user and the stored token is the returned accessToken.
C2_LoginPopulatesSession ==
    (lastOp.op = "loginSettle" /\ lastOp.ok /\ Truthy(lastOp.accessToken))
        => (user = lastOp.user /\ token = lastOp.accessToken)

\* a login succeeded over a different stored token
C2_Witness ==
    /\ lastOp.op = "loginSettle"
    /\ lastOp.ok
    /\ lastOp.accessToken = "t2"
    /\ lastOp.user = "u2"
    /\ bootToken = "t1"
    /\ logoutsDone = 0

\* ------------------------------------------------------------------ C3
\* C3: in the state the boot restoration leaves when its who-am-i call has
\* failed (fetch rejected, non-success status or unreadable body), no token
\* is stored and currentUser is empty.
C3_FailedRestoreClears ==
    (lastOp.op = "restoreSettle" /\ ~lastOp.ok)
        => (bootToken \in Tokens /\ token = NoToken /\ user = NoUser)

\* the who-am-i call of a boot with a stored token was answered 401
C3_Witness ==
    /\ lastOp.op = "restoreSettle"
    /\ ~lastOp.ok
    /\ lastOp.response.status = 401
    /\ bootToken \in Tokens
    /\ token = NoToken

\* ------------------------------------------------------------------ C4
\* C4: a boot that finds no stored token ends the restoration, in the very
\* step that starts it, with currentUser empty and loading false, and never
\* issues a who-am-i request.
C4_NoTokenBoot ==
    /\ (bootToken = NoToken /\ lastOp.op = "restoreStart")
           => (user = NoUser /\ ~loading /\ restorePc = "done")
    /\ bootToken = NoToken => meRequests = 0

\* the restoration of a boot without a token has run
C4_Witness ==
    /\ bootToken = NoToken
    /\ lastOp.op = "restoreStart"
    /\ restorePc = "done"

\* ------------------------------------------------------------------ C5
\* C5: the step in which a login() call fails leaves currentUser and the
\* stored token as they were, raises an error to the caller, and that
\* error's message is the message of the response's error body when the
\* body carries one (a non-empty message field).
C5_FailedLoginLeavesSession ==
    [][(loginInFlight' < loginInFlight /\ ~lastOp'.ok)
          => /\ user' = user
             /\ token' = token
             /\ lastOp'.error # ""
             /\ (CarriesMessage(lastOp'.response)
                    => lastOp'.error = lastOp'.response.message)]_vars

\* a login was rejected with the server's message while a user was logged in
C5_Witness ==
    /\ lastOp.op = "loginSettle"
    /\ ~lastOp.ok
    /\ lastOp.error = "Invalid credentials"
    /\ user \in Users
    /\ token \in Tokens

\* ------------------------------------------------------------------ C6
\* C6: once two (or more) logout() calls have completed, none is in flight
\* and nothing has written a user since the last of them was invoked,
\* currentUser is empty and no token is stored; the calls may overlap or
\* follow one another and each server call may succeed or fail.
C6_LogoutTwice ==
    (logoutsDone >= 2 /\ logoutInFlight = 0 /\ ~popSince)
        => (user = NoUser /\ token = NoToken)

\* two logouts have completed, the last one on a failed server call
C6_Witness ==
    /\ logoutsDone >= 2
    /\ logoutInFlight = 0
    /\ ~popSince
    /\ lastOp.op = "logoutSettle"
    /\ ~lastOp.ok

\* ------------------------------------------------------------------ C7
\* C7: whenever no restore, login or logout call is in flight, currentUser
\* is non-absent exactly when a token is stored.
C7_UserIffToken ==
    Quiescent => ((user # NoUser) <=> (token # NoToken))

\* ------------------------------------------------------------------ C8
\* C8: the boot restoration terminates: eventually it is done and loading is
\* false, given that the who-am-i call resolves or rejects.
C8_RestoreTerminates ==
    <>(restorePc = "done" /\ ~loading)

\* a restoration whose who-am-i call failed without a response has finished
C8_Witness ==
    /\ restorePc = "done"
    /\ ~loading
    /\ lastOp.op = "restoreSettle"
    /\ lastOp.response.net

\* ------------------------------------------------------------------ C9
\* C9: loading is true exactly until the boot restoration completes, and once
\* false it is never true again, whatever login, logout or gateway call
\* follows.
C9_LoadingOnlyDuringBoot ==
    /\ [](loading <=> restorePc # "done")
    /\ [][~loading => ~loading']_vars

\* a login is invoked after a logout has completed, and loading is still false
C9_Witness ==
    /\ ~loading
    /\ logoutsDone >= 1
    /\ lastOp.op = "loginStart"

\* ----------------------------------------------------------------- C10
\* C10: the restoration assigns currentUser once, when it completes; any
\* other change of currentUser is a login() completing successfully, which
\* sets it to the returned user, or a logout() completing, which clears it.
C10_UserFrame ==
    /\ [](restoreAssigns = (IF restorePc = "done" THEN 1 ELSE 0))
    /\ [][user' # user =>
            \/ (restorePc # "done" /\ restorePc' = "done")
            \/ (lastOp'.op = "loginSettle" /\ lastOp'.ok /\ user' = lastOp'.user)
            \/ (lastOp'.op = "logoutSettle" /\ user' = NoUser)]_vars

\* a profile update or an account deletion has been called by a logged-in
\* user and has thrown
C10_Witness ==
    /\ lastOp.op \in {"updateProfile", "deleteMyAccount"}
    /\ ~lastOp.ok
    /\ gatewayError # ""
    /\ user \in Users

\* ----------------------------------------------------------------- C11
\* C11: a step that stores a token is a gateway login that succeeded, and it
\* stores the accessToken of the response; a step that deletes the token is
\* a logout completing (gateway finally, or the fallback of logout()), an
\* account deletion completing, or the restoration failing.  Every other
\* step (starts of calls, failed logins, the profile update) leaves the
\* stored token as it was.
C11_TokenFrame ==
    [][token' # token =>
          IF token' # NoToken
          THEN /\ lastOp'.op = "loginSettle"
               /\ lastOp'.ok
               /\ token' = lastOp'.accessToken
          ELSE \/ lastOp'.op \in {"logoutSettle", "deleteMyAccount"}
               \/ (lastOp'.op = "restoreSettle" /\ ~lastOp'.ok)]_vars

\* a profile update was called and threw while a token written by a login
\* was stored
C11_Witness ==
    /\ lastOp.op = "updateProfile"
    /\ token \in Tokens
    /\ token # bootToken

\* ----------------------------------------------------------------- C12
\* C12: when the gateway logout or the gateway account deletion has ended,
\* no token is stored, whether the request succeeded or threw; when it
\* threw, the error reached the caller of the gateway operation.
C12_GatewayCleanup ==
    lastOp.op \in {"logoutSettle", "deleteMyAccount"}
        => /\ token = NoToken
           /\ (~lastOp.ok => gatewayError # "")
           /\ (lastOp.ok => gatewayError = "")

\* an account deletion threw with a token in storage at boot
C12_Witness ==
    /\ lastOp.op = "deleteMyAccount"
    /\ ~lastOp.ok
    /\ gatewayError = "Failed to parse URL from http://localhost:3000users/delete"
    /\ token = NoToken
    /\ bootToken \in Tokens

\* ============================================== route authorization guard
\* routes declared in App: those wrapped in <ProtectedRoute>, and the others
ProtectedRoutes ==
    {"/", "/settings", "/student", "/student/courses/:courseId",
     "/instructor", "/instructor/courses/:courseId", "/admin"}
PublicRoutes == {"/login", "/register", "/unauthorized"}

\* Variant of AllowedRoles that declares no role restriction on the admin
\* route.  C13 must fail on it.
AllowedRoles_AdminOpen(rt) ==
    CASE rt \in {"/student", "/student/courses/:courseId"} -> {"STUDENT"}
      [] rt \in {"/instructor", "/instructor/courses/:courseId"} -> {"INSTRUCTOR"}
      [] OTHER -> {}

\* the allowedRoles prop of the <ProtectedRoute> of route rt ({} when the
\* prop is not given)
AllowedRoles(rt) ==
    CASE rt \in {"/student", "/student/courses/:courseId"} -> {"STUDENT"}
      [] rt \in {"/instructor", "/instructor/courses/:courseId"} -> {"INSTRUCTOR"}
      [] rt = "/admin" -> {"ADMIN"}
      [] OTHER -> {}

\* the decision of the guard for session (u, ld), user role rl and the
\* allowed-roles set of the route
ProtectedRoute(u, ld, rl, allowed) ==
    IF ld THEN "Pending"
    ELSE IF u = NoUser THEN "Unauthenticated"
    ELSE IF allowed # {} /\ rl \notin allowed THEN "Forbidden"
    ELSE "Authorized"

\* Variant of Index without the loading branch.  C14 must fail on it.
Index_NoSpinner(u, ld, rl) ==
    IF u = NoUser THEN "/login"
    ELSE CASE rl = "ADMIN" -> "/admin"
           [] rl = "INSTRUCTOR" -> "/instructor"
           [] rl = "STUDENT" -> "/student"
           [] OTHER -> "/login"

\* what the Index page renders: the spinner, or a <Navigate> to a location
Index(u, ld, rl) ==
    IF ld THEN "spinner"
    ELSE IF u = NoUser THEN "/login"
    ELSE CASE rl = "ADMIN" -> "/admin"
           [] rl = "INSTRUCTOR" -> "/instructor"
           [] rl = "STUDENT" -> "/student"
           [] OTHER -> "/login"

\* what the route element of location rt renders
Render(rt, u, ld, rl) ==
    IF rt \in PublicRoutes THEN "Public"
    ELSE ProtectedRoute(u, ld, rl, AllowedRoles(rt))

\* the location a <Navigate> rendered at rt leads to ("none": none rendered)
RedirectTarget(rt, u, ld, rl) ==
    CASE Render(rt, u, ld, rl) = "Unauthenticated" -> "/login"
      [] Render(rt, u, ld, rl) = "Forbidden" -> "/unauthorized"
      [] Render(rt, u, ld, rl) = "Authorized" /\ rt = "/"
             /\ Index(u, ld, rl) # "spinner" -> Index(u, ld, rl)
      [] OTHER -> "none"

GuardInit ==
    /\ SessionInit
    /\ GatewayAtRest
    /\ StreamAtRest
    /\ ChatAtRest
    /\ DashAtRest
    /\ route \in ProtectedRoutes \cup PublicRoutes
    /\ role = NoRole
    /\ rendered = Render(route, user, loading, role)
    /\ lastRedirect = "none"

\* the responses the session receives while the guard is observed
GuardFailed == {NetworkFailure}

\* a step A of the session with the router mounted: the user object set by
\* a restoration or a login carries a role, and the context change renders
\* the route element again
GuardSession(A) ==
    /\ A
    /\ route' = route
    /\ role' \in IF user' = NoUser THEN {NoRole}
                 ELSE IF lastOp'.op \in {"restoreSettle", "loginSettle"} /\ lastOp'.ok
                      THEN Roles
                      ELSE {role}
    /\ rendered' = Render(route', user', loading', role')
    /\ lastRedirect' = lastRedirect
    /\ UNCHANGED <<gatewayVars, streamVars, chatVars, dashVars>>

\* the user clicks Log out in the menu of Layout (shown with a user, on the
\* unguarded /unauthorized and inside every guard that authorizes):
\* handleLogout calls logout(), which runs up to its fetch, and then
\* navigate("/login"), in one event handler
LayoutLogout ==
    /\ user # NoUser
    /\ route = "/unauthorized" \/ rendered = "Authorized"
    /\ RedirectTarget(route, user, loading, role) = "none"
    /\ LogoutStart
    /\ route' = "/login"
    /\ role' = role
    /\ rendered' = Render("/login", user', loading', role')
    /\ lastRedirect' = "none"
    /\ UNCHANGED <<gatewayVars, streamVars, chatVars, dashVars>>

\* the user opens location rt
NavigateTo(rt) ==
    /\ route' = rt
    /\ rendered' = Render(rt, user, loading, role)
    /\ lastRedirect' = "none"
    /\ UNCHANGED <<sessionVars, role, gatewayVars, streamVars, chatVars, dashVars>>

\* the router follows the <Navigate> that the current location rendered
FollowRedirect ==
    /\ RedirectTarget(route, user, loading, role) # "none"
    /\ route' = RedirectTarget(route, user, loading, role)
    /\ rendered' = Render(route', user, loading, role)
    /\ lastRedirect' = route'
    /\ UNCHANGED <<sessionVars, role, gatewayVars, streamVars, chatVars, dashVars>>

GuardNext ==
    \/ GuardSession(RestoreStart)
    \/ GuardSession(\E r \in GuardFailed : RestoreSettle(r, NoBodyUser))
    \/ GuardSession(\E r \in OkResponses, u \in Users : RestoreSettle(r, u))
    \/ GuardSession(LoginStart)
    \/ GuardSession(\E r \in GuardFailed : LoginSettle(r, NoBodyUser, NoBodyToken))
    \/ GuardSession(\E r \in OkResponses, u \in Users, t \in Tokens : LoginSettle(r, u, t))
    \/ LayoutLogout
    \/ GuardSession(\E r \in GuardFailed \cup OkResponses : LogoutSettle(r))
    \/ \E rt \in ProtectedRoutes \cup PublicRoutes : NavigateTo(rt)
    \/ FollowRedirect

GuardSpec == GuardInit /\ [][GuardNext]_vars

\* ------------------------------------------------------------------ C32
\* C32: when a logout() call has completed, it has raised nothing to its
\* caller and has shown no error notification; when its server call failed
\* (the gateway did raise), it has shown no notification at all.
C32_LogoutSwallowsFailure ==
    lastOp.op = "logoutSettle"
        => /\ lastOp.error = ""
           /\ lastOp.toast.title # "Error"
           /\ (gatewayError # "" => lastOp.toast = NoToast)

\* a logout whose server call failed has completed: the gateway raised, the
\* session is cleared
C32_Witness ==
    /\ lastOp.op = "logoutSettle"
    /\ ~lastOp.ok
    /\ gatewayError # ""
    /\ user = NoUser
    /\ token = NoToken

\* ------------------------------------------------------------------ C34
\* C34: when the request of a login() or of a logout() has settled, the call
\* has shown a notification reporting its success or its failure.
C34_SettledActionNotifies ==
    lastOp.op \in {"loginSettle", "logoutSettle"} => lastOp.toast # NoToast

\* ------------------------------------------------------------------ C35
\* C35: when the boot restoration completes in the state a successful
\* login() has just left (the login succeeded while the who-am-i call was in
\* flight and no logout was invoked since), the completion leaves
\* currentUser and the stored token as the login set them.
C35_RestoreKeepsLogin ==
    [][(/\ lastOp.op = "loginSettle"
        /\ lastOp.ok
        /\ restorePc = "awaitMe"
        /\ restorePc' = "done")
           => (user' = user /\ token' = token)]_vars

\* ------------------------------------------------------------------ C36
\* C36: when a logout() call completes in the state a successful login() has
\* just left (the login succeeded while the logout's server call was in
\* flight), the completion leaves currentUser and the stored token as the
\* login set them.
C36_LogoutKeepsLaterLogin ==
    [][(/\ lastOp.op = "loginSettle"
        /\ lastOp.ok
        /\ logoutInFlight > 0
        /\ lastOp'.op = "logoutSettle")
           => (user' = user /\ token' = token)]_vars

\* ----------------------------------------------------------------- C13
\* C13: what a protected route renders is decided by the current session and
\* the route's allowedRoles alone, at every render: once the session is
\* initialized, no user gives Unauthenticated whatever the allowedRoles; a
\* user on a route without allowedRoles ("/", "/settings") gives Authorized;
\* on a route with allowedRoles the user is Authorized when his role is in
\* them and Forbidden when it is not (the student, instructor and admin
\* routes admit exactly their own role).
C13_GuardDecision ==
    (route \in ProtectedRoutes /\ ~loading) =>
        /\ user = NoUser => rendered = "Unauthenticated"
        /\ (user # NoUser /\ AllowedRoles(route) = {}) => rendered = "Authorized"
        /\ (user # NoUser /\ AllowedRoles(route) # {}) =>
               rendered = IF role \in AllowedRoles(route)
                          THEN "Authorized" ELSE "Forbidden"
        /\ (user # NoUser /\ route \in {"/", "/settings"}) => rendered = "Authorized"
        /\ (user # NoUser /\ route \in {"/student", "/student/courses/:courseId"}) =>
               (rendered = "Authorized" <=> role = "STUDENT")
        /\ (user # NoUser /\ route \in {"/instructor", "/instructor/courses/:courseId"}) =>
               (rendered = "Authorized" <=> role = "INSTRUCTOR")
        /\ (user # NoUser /\ route = "/admin") =>
               (rendered = "Authorized" <=> role = "ADMIN")
        /\ rendered \in {"Unauthenticated", "Authorized", "Forbidden"}

\* a student who logged in is on the admin route and is refused
C13_Witness ==
    /\ route = "/admin"
    /\ user # NoUser
    /\ role = "STUDENT"
    /\ lastOp.op = "loginSettle"
    /\ rendered = "Forbidden"

\* ----------------------------------------------------------------- C14
\* C14: while the session is initializing, a protected route renders Pending
\* and the Index page renders its spinner, and no redirect has been
\* followed; in particular, while a stored token is being restored the
\* router has not been sent to the login route.
C14_PendingWhileLoading ==
    /\ loading =>
           /\ route \in ProtectedRoutes => rendered = "Pending"
           /\ Index(user, loading, role) = "spinner"
           /\ RedirectTarget(route, user, loading, role) = "none"
           /\ lastRedirect = "none"
    /\ (bootToken \in Tokens /\ restorePc # "done") => lastRedirect # "/login"

\* the who-am-i call for a stored token is in flight with the Index route open
C14_Witness ==
    /\ loading
    /\ restorePc = "awaitMe"
    /\ bootToken \in Tokens
    /\ route = "/"
    /\ rendered = "Pending"

\* the session of user u after a boot without a token and a login that was
\* answered with accessToken t
LoggedIn(u, t) ==
    /\ token = IF Truthy(t) THEN t ELSE NoToken
    /\ user = u
    /\ loading = FALSE
    /\ restorePc = "done"
    /\ loginInFlight = 0
    /\ logoutInFlight = 0
    /\ lastOp = Op("loginSettle",
                   [net |-> FALSE, status |-> 200, json |-> TRUE, message |-> Undefined],
                   TRUE, u, t, "", Toast("Success", "Logged in successfully"))
    /\ bootToken = NoToken
    /\ meRequests = 0
    /\ restoreAssigns = 1
    /\ popSince = TRUE
    /\ logoutsDone = 0
    /\ gatewayError = ""

\* ===================================================== gateway and views
\* at most this many requests of the views await their response
MaxPending == 1

\* a validation/business failure: 4xx with a message in its JSON body
BusinessFailure ==
    [net |-> FALSE, status |-> 400, json |-> TRUE, message |-> "Already enrolled"]

GatewayResponses == HttpResponses \cup {BusinessFailure}

\* the views that call the gateway from handlers
Pages ==
    {"StudentDashboard", "CourseDetails", "InstructorDashboard", "CourseManagement"}

\* the function that the mount effect of page p calls, and that the handlers
\* of p call again after a success
LoaderOf(p) ==
    IF p \in {"CourseManagement", "CourseDetails"} THEN "loadCourseData"
    ELSE "loadCourses"

\* the dashboard that the handlers and the loader of a course page navigate
\* to: navigate('/instructor'), navigate('/student')
HomeOf(p) ==
    IF p = "CourseManagement" THEN "InstructorDashboard" ELSE "StudentDashboard"

\* handlers of page p that call the gateway
HandlersOf(p) ==
    CASE p = "StudentDashboard" ->
             {"handleAcceptEnrollment", "handleRejectEnrollment", "handleDropCourse"}
      [] p = "CourseDetails" -> {"handleDownloadMaterial", "handleDropCourse"}
      [] p = "InstructorDashboard" -> {"handleCreateCourse"}
      [] p = "CourseManagement" ->
             {"handleUpdateCourse", "handleDeleteCourse", "handleUploadMaterial",
              "handleDownloadMaterial", "handleDeleteMaterial",
              "handleInviteStudent", "handleKickStudent", "handleCompleteCourse"}

ViewHandlers == UNION {HandlersOf(p) : p \in Pages}

\* the ApiClient code path that the call of handler h runs
GatewayOp(h) ==
    CASE h = "handleUploadMaterial" -> "uploadCourseMaterial"
      [] h = "handleDownloadMaterial" -> "downloadCourseMaterial"
      [] OTHER -> "request"

\* ...(token && { Authorization: `Bearer ${token}` })
AuthorizationOf(tok) == IF Truthy(tok) THEN "Bearer " \o tok ELSE Undefined

\* headers of a request sent through ApiClient.request
GetAuthHeaders(tok) ==
    [contentType |-> "application/json", authorization |-> AuthorizationOf(tok)]

\* headers of the upload request
UploadHeaders(tok) ==
    [contentType |-> Undefined, authorization |-> AuthorizationOf(tok)]

\* Variant of DownloadHeaders that sends no Authorization header.  C15 must
\* fail on it.
DownloadHeaders_NoAuthorization(tok) ==
    [contentType |-> Undefined, authorization |-> Undefined]

\* headers of the download request
DownloadHeaders(tok) ==
    [contentType |-> Undefined, authorization |-> AuthorizationOf(tok)]

\* headers of the request of gateway operation op issued with tok in storage
HeadersOf(op, tok) ==
    CASE op = "uploadCourseMaterial" -> UploadHeaders(tok)
      [] op = "downloadCourseMaterial" -> DownloadHeaders(tok)
      [] OTHER -> GetAuthHeaders(tok)

\* downloadCourseMaterial throws: the body is read as a blob, never parsed
DownloadFails(r) == r.net \/ ~ResponseOk(r)

\* message of the Error that downloadCourseMaterial throws
DownloadError(r) ==
    IF r.net THEN "Failed to fetch"
    ELSE "HTTP error! status: " \o ToString(r.status)

\* gateway operation op throws on response r, and the message of its Error
ApiFails(op, r) ==
    IF op = "downloadCourseMaterial" THEN DownloadFails(r) ELSE RequestFails(r)
ApiError(op, r) ==
    IF op = "downloadCourseMaterial" THEN DownloadError(r) ELSE RequestError(r)

\* description of the toast of handler h after success, and in its catch
SuccessToast(h) ==
    CASE h = "handleAcceptEnrollment" -> "Enrollment accepted successfully"
      [] h = "handleRejectEnrollment" -> "Enrollment rejected"
      [] h = "handleDropCourse" -> "Dropped from course successfully"
      [] h = "handleCreateCourse" -> "Course created successfully"
      [] h = "handleUpdateCourse" -> "Course updated successfully"
      [] h = "handleDeleteCourse" -> "Course deleted successfully"
      [] h = "handleUploadMaterial" -> "Material uploaded successfully"
      [] h = "handleDownloadMaterial" -> "Material downloaded successfully"
      [] h = "handleDeleteMaterial" -> "Material deleted successfully"
      [] h = "handleInviteStudent" -> "Student invited successfully"
      [] h = "handleKickStudent" -> "Student removed from course"
      [] h = "handleCompleteCourse" -> "Course marked as completed for all students"
FailureToast(h, err) ==
    CASE h = "handleAcceptEnrollment" -> "Failed to accept enrollment"
      [] h = "handleRejectEnrollment" -> "Failed to reject enrollment"
      [] h = "handleDropCourse" -> "Failed to drop from course"
      [] h = "handleCreateCourse" -> "Failed to create course"
      [] h = "handleUpdateCourse" -> "Failed to update course"
      [] h = "handleDeleteCourse" -> "Failed to delete course"
      [] h = "handleUploadMaterial" -> "Failed to upload material"
      [] h = "handleDownloadMaterial" -> "Failed to download material"
      [] h = "handleDeleteMaterial" -> "Failed to delete material"
      [] h = "handleInviteStudent" -> "Failed to invite student"
      [] h = "handleKickStudent" -> "Failed to remove student"
      [] h = "handleCompleteCourse" -> "Failed to complete course"

\* description of the toast in the catch of a loader
LoaderFailureToast(loader) ==
    IF loader = "loadCourseData" THEN "Failed to load course data"
    ELSE "Failed to load courses"

\* how the success path of handler h of page p ends after its toast:
\* handleDeleteCourse, and the handleDropCourse of CourseDetails, navigate
\* to the dashboard; handleDownloadMaterial does nothing more; the others
\* call the loader of the page
Ending(p, h) ==
    IF h = "handleDeleteCourse" \/ (p = "CourseDetails" /\ h = "handleDropCourse")
    THEN "navigate"
    ELSE IF h = "handleDownloadMaterial" THEN "nothing" ELSE "reload"

\* the request of handler h of page p, and the request of stage s of the
\* loader of page p (1: getCourses; 2: getCourseMaterials in CourseDetails,
\* and in CourseManagement the three requests that loadCourseData hands to
\* Promise.all, issued in one step and awaited as one), issued with tok in
\* storage by a component that is mounted (live) or no longer is
HandlerRequest(p, h, isLive, tok) ==
    [handler |-> h, page |-> p, stage |-> 0, live |-> isLive,
     tokenAtIssue |-> tok,
     authorization |-> HeadersOf(GatewayOp(h), tok).authorization]
LoaderRequest(p, s, isLive, tok) ==
    [handler |-> LoaderOf(p), page |-> p, stage |-> s, live |-> isLive,
     tokenAtIssue |-> tok,
     authorization |-> GetAuthHeaders(tok).authorization]

\* the requests of bag B after the component that issued them has unmounted
Detached(B) ==
    [q \in {[x EXCEPT !.live = FALSE] : x \in BagToSet(B)} |->
        CopiesIn(q, B) + CopiesIn([q EXCEPT !.live = TRUE], B)]

\* the state of page p at mount: useState(true) for loading, no course, empty
\* lists, nothing chosen in the upload and invite dialogs
Mounted(p) ==
    [page |-> p, loading |-> TRUE, course |-> FALSE, loaded |-> FALSE,
     selectedFile |-> "null", materialTitle |-> "", selectedStudentId |-> "null"]

\* what can be chosen in the dialogs of CourseManagement (a student, once
\* chosen, cannot be unchosen)
FormValues(field) ==
    CASE field = "selectedFile" -> {"null", "file"}
      [] field = "materialTitle" -> {"", "Slides"}
      [] field = "selectedStudentId" -> {"s1"}

\* the page renders the control of handler h: the page is past its spinner,
\* CourseManagement has its course, and the rows that carry the buttons of
\* a list have been loaded
HandlerRendered(h) ==
    /\ view.page \in Pages
    /\ h \in HandlersOf(view.page)
    /\ ~view.loading
    /\ view.page \in {"CourseManagement", "CourseDetails"} => view.course
    /\ (/\ h \in {"handleAcceptEnrollment", "handleRejectEnrollment",
                  "handleDropCourse", "handleDownloadMaterial",
                  "handleDeleteMaterial", "handleKickStudent"}
        /\ Ending(view.page, h) # "navigate")
           => view.loaded

\* a step of the views: its kind, the handler or loader that took it, the
\* token read and the headers built when it issued a request, the response
\* when it settled one, the message of the error thrown and the toast shown
GwOp(kind, h, tok, op, r, err, t) ==
    [op |-> kind, handler |-> h, tokenAtIssue |-> tok,
     authorization |-> HeadersOf(op, tok).authorization,
     contentType |-> HeadersOf(op, tok).contentType,
     response |-> r, error |-> err, toast |-> t]

\* a user is logged in (the views are behind ProtectedRoute), with or
\* without a token in storage
GatewayInit ==
    /\ \E t \in {"t1", Undefined} : LoggedIn("u1", t)
    /\ GuardAtRest
    /\ GatewayAtRest
    /\ StreamAtRest
    /\ ChatAtRest
    /\ DashAtRest

\* ApiClient.login stores the token t it received
SetTokenInStorage(t) ==
    /\ token' = t
    /\ UNCHANGED <<user, loading, restorePc, inFlight, lastOp, bootToken,
                   meRequests, restoreAssigns, popSince, logoutsDone,
                   gatewayError, guardVars, gatewayVars, streamVars, chatVars, dashVars>>

\* ApiClient.logout or deleteMyAccount, or AuthProvider, removes the token
RemoveTokenFromStorage ==
    /\ token # NoToken
    /\ token' = NoToken
    /\ UNCHANGED <<user, loading, restorePc, inFlight, lastOp, bootToken,
                   meRequests, restoreAssigns, popSince, logoutsDone,
                   gatewayError, guardVars, gatewayVars, streamVars, chatVars, dashVars>>

\* the views and requests after navigate(p) run with requests B in flight:
\* the router unmounts the page shown and mounts p, whose effect calls its
\* loader (setLoading(true), then getCourses with the headers built from
\* the token in storage now); a navigation to the page shown changes nothing
AfterNavigate(p, B) ==
    IF view.page = p
    THEN [view |-> view, pending |-> B]
    ELSE [view |-> Mounted(p),
          pending |-> Detached(B) (+) SetToBag({LoaderRequest(p, 1, TRUE, token)})]

\* the user opens page p
PageMount(p) ==
    /\ view.page # p
    /\ BagCardinality(pending) < MaxPending
    /\ view' = AfterNavigate(p, pending).view
    /\ pending' = AfterNavigate(p, pending).pending
    /\ gwOp' = GwOp("mount", LoaderOf(p), token, "request", NoResponse, "", NoToast)
    /\ UNCHANGED <<sessionVars, guardVars, streamVars, chatVars, dashVars>>

\* the user picks a file, types a title or picks a student in a dialog of
\* CourseManagement (the students listed are those loaded)
FormInput(field, value) ==
    /\ view.page = "CourseManagement"
    /\ ~view.loading
    /\ view.course
    /\ field = "selectedStudentId" /\ value # "null" => view.loaded
    /\ view[field] # value
    /\ view' = [view EXCEPT ![field] = value]
    /\ UNCHANGED <<pending, gwOp, sessionVars, guardVars, streamVars, chatVars, dashVars>>

\* handler h runs up to its await.  handleUploadMaterial and
\* handleInviteStudent return at their guard; a gateway method whose URL
\* does not parse rejects without a request, and the catch of the handler
\* shows its toast in this step; otherwise the request leaves with the
\* headers built from the token in storage now
HandlerIssue(h) ==
    /\ HandlerRendered(h)
    /\ BagCardinality(pending) < MaxPending
    /\ IF h = "handleUploadMaterial"
          /\ (view.selectedFile = "null" \/ view.materialTitle = "")
       THEN /\ gwOp' = GwOp("refuse", h, NoToken, GatewayOp(h), NoResponse, "",
                            Toast("Error", "Please select a file and enter a title"))
            /\ UNCHANGED pending
       ELSE IF h = "handleInviteStudent" /\ view.selectedStudentId = "null"
       THEN /\ gwOp' = GwOp("refuse", h, NoToken, GatewayOp(h), NoResponse, "", NoToast)
            /\ UNCHANGED pending
       ELSE IF ~UrlParses(EndpointOf(h))
       THEN /\ gwOp' = GwOp("reject", h, token, GatewayOp(h), NoResponse,
                            UrlError(EndpointOf(h)),
                            Toast("Error", FailureToast(h, UrlError(EndpointOf(h)))))
            /\ UNCHANGED pending
       ELSE /\ gwOp' = GwOp("issue", h, token, GatewayOp(h), NoResponse, "", NoToast)
            /\ pending' = pending (+) SetToBag({HandlerRequest(view.page, h, TRUE, token)})
    /\ UNCHANGED <<view, sessionVars, guardVars, streamVars, chatVars, dashVars>>

\* the page after the success path of handler h has run in its mounted
\* component: handleUploadMaterial empties its dialog, and the loader called
\* last puts the page behind its spinner
AfterSuccess(h) ==
    [view EXCEPT !.loading = IF Ending(view.page, h) = "reload" THEN TRUE ELSE @,
                 !.selectedFile = IF h = "handleUploadMaterial" THEN "null" ELSE @,
                 !.materialTitle = IF h = "handleUploadMaterial" THEN "" ELSE @]

\* the request q of a handler settles with response r: the gateway returns
\* or throws, and the handler shows its toast.  After the success toast the
\* handler calls the loader of its page, whose request leaves in this step
\* with the headers built from the token in storage now, or (deleting a
\* course, dropping the course in CourseDetails) navigates to the
\* dashboard.  State updates of a component that has unmounted are
\* dropped; its calls are not.
HandlerSettle(q, r) ==
    /\ BagIn(q, pending)
    /\ q.stage = 0
    /\ IF ApiFails(GatewayOp(q.handler), r)
       THEN /\ pending' = pending (-) SetToBag({q})
            /\ UNCHANGED view
       ELSE IF Ending(q.page, q.handler) = "navigate"
       THEN /\ view' = AfterNavigate(HomeOf(q.page),
                                     pending (-) SetToBag({q})).view
            /\ pending' = AfterNavigate(HomeOf(q.page),
                                        pending (-) SetToBag({q})).pending
       ELSE /\ view' = IF q.live THEN AfterSuccess(q.handler) ELSE view
            /\ pending' = IF Ending(q.page, q.handler) = "reload"
                          THEN (pending (-) SetToBag({q})) (+)
                               SetToBag({LoaderRequest(q.page, 1, q.live, token)})
                          ELSE pending (-) SetToBag({q})
    /\ gwOp' = GwOp("settle", q.handler, NoToken, GatewayOp(q.handler), r,
                    IF ApiFails(GatewayOp(q.handler), r)
                    THEN ApiError(GatewayOp(q.handler), r) ELSE "",
                    IF ApiFails(GatewayOp(q.handler), r)
                    THEN Toast("Error",
                               FailureToast(q.handler, ApiError(GatewayOp(q.handler), r)))
                    ELSE Toast("Success", SuccessToast(q.handler)))
    /\ UNCHANGED <<sessionVars, guardVars, streamVars, chatVars, dashVars>>

\* c is what the body of getCourses says of the course of page p: whether
\* it lists the course, the instructor of the course and the students
\* enrolled.  CourseManagement goes on when
\* !foundCourse || foundCourse.instructorId !== user?.id is false,
\* CourseDetails when the course is found and
\* foundCourse.enrollments?.find(e => e.studentId === user?.id) is too.
Admits(p, c) ==
    /\ c.found
    /\ IF p = "CourseManagement" THEN c.instructorId = user ELSE user \in c.students

\* the request q of a loader settles with response r (for the three
\* requests of Promise.all: all fulfilled, or r the first rejection) whose
\* body says c of the course.  The catch shows the toast of the loader and
\* the finally block ends the spinner.
LoaderSettle(q, r, c) ==
    /\ BagIn(q, pending)
    /\ q.stage > 0
    /\ IF RequestFails(r)
       THEN /\ pending' = pending (-) SetToBag({q})
            /\ view' = IF q.live THEN [view EXCEPT !.loading = FALSE] ELSE view
            /\ gwOp' = GwOp("loaded", q.handler, NoToken, "request", r,
                            RequestError(r),
                            Toast("Error", LoaderFailureToast(q.handler)))
       ELSE IF q.handler = "loadCourseData" /\ q.stage = 1
       THEN IF Admits(q.page, c)
            THEN /\ pending' = (pending (-) SetToBag({q})) (+)
                               SetToBag({LoaderRequest(q.page, 2, q.live, token)})
                 /\ view' = IF q.live THEN [view EXCEPT !.course = TRUE] ELSE view
                 /\ gwOp' = GwOp("loaded", q.handler, NoToken, "request", r,
                                 "", NoToast)
            ELSE /\ pending' = AfterNavigate(HomeOf(q.page),
                                             pending (-) SetToBag({q})).pending
                 /\ view' = AfterNavigate(HomeOf(q.page),
                                          pending (-) SetToBag({q})).view
                 /\ gwOp' = GwOp("loaded", q.handler, NoToken, "request", r, "",
                                 Toast("Error",
                                       IF q.page = "CourseManagement"
                                       THEN "Course not found or you do not have permission to manage it"
                                       ELSE IF ~c.found THEN "Course not found"
                                       ELSE "You are not enrolled in this course"))
       ELSE /\ pending' = pending (-) SetToBag({q})
            /\ view' = IF q.live
                       THEN [view EXCEPT !.loaded = TRUE, !.loading = FALSE]
                       ELSE view
            /\ gwOp' = GwOp("loaded", q.handler, NoToken, "request", r,
                            "", NoToast)
    /\ UNCHANGED <<sessionVars, guardVars, streamVars, chatVars, dashVars>>

GatewayNext ==
    \/ \E t \in Tokens : SetTokenInStorage(t)
    \/ RemoveTokenFromStorage
    \/ \E p \in Pages : PageMount(p)
    \/ \E field \in {"selectedFile", "materialTitle", "selectedStudentId"} : \E value \in FormValues(field) : FormInput(field, value)
    \/ \E h \in ViewHandlers : HandlerIssue(h)
    \/ \E q \in BagToSet(pending) :
           \E r \in {x \in GatewayResponses : ApiFails(GatewayOp(q.handler), x)} :
               HandlerSettle(q, r)
    \/ \E q \in BagToSet(pending) :
           \E r \in {x \in GatewayResponses : ~ApiFails(GatewayOp(q.handler), x)} :
               HandlerSettle(q, r)
    \/ \E q \in BagToSet(pending) :
           \E r \in {x \in GatewayResponses : RequestFails(x)} :
               LoaderSettle(q, r, [found |-> FALSE, instructorId |-> NoUser, students |-> {}])
    \/ \E q \in {x \in BagToSet(pending) : x.handler = "loadCourseData" /\ x.stage = 1} :
           \E r \in {x \in GatewayResponses : ~RequestFails(x)} :
               \E c \in [found : BOOLEAN,
                          instructorId : IF q.page = "CourseManagement" THEN Users ELSE {NoUser},
                          students : IF q.page = "CourseManagement" THEN {{}} ELSE {{}, Users}] :
                   LoaderSettle(q, r, c)
    \/ \E q \in {x \in BagToSet(pending) : x.handler # "loadCourseData" \/ x.stage # 1} :
           \E r \in {x \in GatewayResponses : ~RequestFails(x)} :
               LoaderSettle(q, r, [found |-> FALSE, instructorId |-> NoUser, students |-> {}])

GatewaySpec == GatewayInit /\ [][GatewayNext]_vars

\* The headers of a request do not depend on the responses: the views with
\* one response of each outcome that they tell apart, a rejected fetch and
\* a success.
HeaderResponses ==
    {NetworkFailure,
     [net |-> FALSE, status |-> 200, json |-> TRUE, message |-> Undefined]}

HeaderNext ==
    \/ \E t \in Tokens : SetTokenInStorage(t)
    \/ RemoveTokenFromStorage
    \/ \E p \in Pages : PageMount(p)
    \/ \E field \in {"selectedFile", "materialTitle", "selectedStudentId"} : \E value \in FormValues(field) : FormInput(field, value)
    \/ \E h \in ViewHandlers : HandlerIssue(h)
    \/ \E q \in BagToSet(pending) :
           \E r \in {x \in HeaderResponses : ApiFails(GatewayOp(q.handler), x)} :
               HandlerSettle(q, r)
    \/ \E q \in BagToSet(pending) :
           \E r \in {x \in HeaderResponses : ~ApiFails(GatewayOp(q.handler), x)} :
               HandlerSettle(q, r)
    \/ \E q \in BagToSet(pending) :
           \E r \in {x \in HeaderResponses : RequestFails(x)} :
               LoaderSettle(q, r, [found |-> FALSE, instructorId |-> NoUser, students |-> {}])
    \/ \E q \in {x \in BagToSet(pending) : x.handler = "loadCourseData" /\ x.stage = 1} :
           \E r \in {x \in HeaderResponses : ~RequestFails(x)} :
               \E c \in [found : BOOLEAN,
                          instructorId : IF q.page = "CourseManagement" THEN Users ELSE {NoUser},
                          students : IF q.page = "CourseManagement" THEN {{}} ELSE {{}, Users}] :
                   LoaderSettle(q, r, c)
    \/ \E q \in {x \in BagToSet(pending) : x.handler # "loadCourseData" \/ x.stage # 1} :
           \E r \in {x \in HeaderResponses : ~RequestFails(x)} :
               LoaderSettle(q, r, [found |-> FALSE, instructorId |-> NoUser, students |-> {}])

HeaderSpec == GatewayInit /\ [][HeaderNext]_vars

\* ----------------------------------------------------------------- C15
\* C15: a request carries the header Authorization: Bearer <token> exactly
\* when a token was in storage at the moment it was issued, with the token
\* stored then; a request issued with no token stored carries no
\* Authorization header.  (Stated of the step that issues the request, be it
\* the request of a handler or the request of the loader that a mount or a
\* settled handler calls: the token it reads is the one in storage before
\* the step.  The requests issued in a step are those that the bag holds
\* after it and not before it, whether or not their component is mounted.)
C15_AuthorizationHeader ==
    [][\A q \in BagToSet(Detached(pending') (-) Detached(pending)) :
           /\ q.tokenAtIssue = token
           /\ q.authorization = IF token \in Tokens
                                THEN "Bearer " \o token ELSE Undefined
           /\ gwOp'.op \in {"issue", "mount"} => gwOp'.authorization = q.authorization]_vars

\* a download was issued with token t1 stored and is in flight
C15_Witness ==
    /\ gwOp.op = "issue"
    /\ gwOp.handler = "handleDownloadMaterial"
    /\ gwOp.authorization = "Bearer t1"
    /\ token = "t1"
    /\ \E q \in BagToSet(pending) :
           q.handler = "handleDownloadMaterial" /\ q.tokenAtIssue = "t1"

\* ----------------------------------------------------------------- C16
\* C16: whichever gateway operation received it, a response with a
\* non-success status raises an error whose message is the message field of
\* the JSON error body when the body carries one, and the generic message
\* with the status code otherwise; the download operation included.
C16_UniformError ==
    (gwOp.op = "settle" /\ ~gwOp.response.net /\ ~ResponseOk(gwOp.response)) =>
        gwOp.error = IF CarriesMessage(gwOp.response)
                     THEN gwOp.response.message
                     ELSE "HTTP error! status: " \o ToString(gwOp.response.status)

\* ----------------------------------------------------------------- C17
\* C17: when the action of a handler fails with a validation/business error
\* (4xx other than 401, with a message in the body), the description of the
\* toast shown is that message.
C17_ToastCarriesServerMessage ==
    (/\ gwOp.op = "settle"
     /\ ~gwOp.response.net
     /\ gwOp.response.status >= 400 /\ gwOp.response.status <= 499
     /\ gwOp.response.status # 401
     /\ CarriesMessage(gwOp.response)) =>
        gwOp.toast.description = gwOp.response.message

\* ========================================================= admin dashboard
\* One AdminDashboard at a time: the state of the component, the EventSource
\* that its mount effect opened, and the requests of loadDashboardData and
\* of the two handlers.  Responses arrive in any order, and what a response
\* carries is the server's choice.  The token in storage is read when the
\* dashboard mounts and by nothing else here; the first state draws it.
\* A step of the mounted instance ends with React rendering the new state.

\* AdminSpec: a run holds at most this many mounts, handler calls and
\* well-formed events, taken together
MaxWork == 3
\* FewSpec: the same, for the shorter runs
FewWork == 2

\* prev.slice(0, 9): the entries of the old buffer that are kept
BufferTail == 9

Min(a, b) == IF a < b THEN a ELSE b

\* the type field of a parsed event: the keys of eventTypeMap, a type that
\* only getEventTypeLabel knows, a type nobody knows, the name of a property
\* that every object literal inherits, and no type at all
MappedEventTypes ==
    {"STUDENT_ENROLLED_IN_COURSE", "COURSE_CREATED",
     "INSTRUCTOR_INVITED_STUDENT", "STUDENT_DROPPED_FROM_COURSE"}
EventTypes ==
    MappedEventTypes
    \cup {"STUDENT_REJECTED_ENROLLMENT_FROM_COURSE", "SOMETHING_ELSE",
          "toString", Undefined}
\* the types of the events delivered here: a key of eventTypeMap, and each
\* of the other kinds
SentEventTypes ==
    {"COURSE_CREATED", "STUDENT_REJECTED_ENROLLMENT_FROM_COURSE",
     "SOMETHING_ELSE", "toString", Undefined}

\* event.data of a message: text that JSON.parse rejects, or an event; only
\* the type of an event is looked at
Malformed == "malformed"
Payloads == {Malformed} \cup SentEventTypes

\* eventTypeMap[type]
EventTypeMap(ty) ==
    CASE ty = "STUDENT_ENROLLED_IN_COURSE" -> "Student enrolled in course"
      [] ty = "COURSE_CREATED" -> "New course created"
      [] ty = "INSTRUCTOR_INVITED_STUDENT" -> "Student invited to course"
      [] ty = "STUDENT_DROPPED_FROM_COURSE" -> "Student dropped from course"
      [] ty = "toString" -> "function toString() { [native code] }"
      [] OTHER -> Undefined

\* the types for which getEventTypeLabel has a label
LabelledEventTypes ==
    MappedEventTypes \cup {"STUDENT_REJECTED_ENROLLMENT_FROM_COURSE"}

\* getEventTypeLabel(type) throws a TypeError: labels[type] is undefined and
\* type, being no string, has no replace method.  labels["toString"] is the
\* inherited function, which is truthy and is returned.
LabelThrows(ty) == ty = Undefined

\* the toast of onmessage for an event of type ty
EventToast(ty) ==
    IF Truthy(EventTypeMap(ty))
    THEN Toast("Real-time Update", EventTypeMap(ty))
    ELSE NoToast

\* a buffered event: its number in the order of arrival at this mount, and
\* what the dashboard's render does with its type
EventData(n, ty) == [id |-> n, throws |-> LabelThrows(ty)]

\* [eventData, ...prev.slice(0, 9)]
PrependEvent(e, prev) == <<e>> \o SubSeq(prev, 1, Min(BufferTail, Len(prev)))

\* the render of AdminDashboard with state (ld, buf) throws: while loading
\* it returns the spinner; otherwise it calls getEventTypeLabel(event.type)
\* for every buffered event
RenderThrows(ld, buf) == ~ld /\ \E i \in 1..Len(buf) : buf[i].throws

\* setAnalytics({...}) of loadDashboardData, from the two responses
Analytics(ur, cr) ==
    [totalUsers |-> ur.total,
     totalInstructors |->
         Cardinality({a \in ur.data : AccountRole(a) = "INSTRUCTOR"}),
     totalStudents |->
         Cardinality({a \in ur.data : AccountRole(a) = "STUDENT"}),
     totalCourses |-> cr.total]

\* what GET /courses answers as total: the courses do not change here
CourseCount == 1

\* call number n of loadDashboardData: Promise.all of two requests; live: the
\* instance that made the call is still mounted; done: the awaiting code
\* has continued (try or catch)
NewLoad(n) ==
    [seq |-> n, live |-> TRUE, users |-> NoSub, courses |-> NoSub,
     done |-> FALSE, toasts |-> 0]

\* the instance that made the calls of set S has been unmounted
Orphaned(S) == {[x EXCEPT !.live = FALSE] : x \in S}

\* an admin is logged in and on /admin
AdminInit ==
    /\ \E t \in {"t1", Undefined} : LoggedIn("u1", t)
    /\ role = "ADMIN"
    /\ route = "/admin"
    /\ rendered = "Authorized"
    /\ lastRedirect = "none"
    /\ GatewayAtRest
    /\ StreamAtRest
    /\ ChatAtRest
    /\ DashAtRest

\* React renders the mounted instance with the state (ld, an, us, buf, n)
\* that a step has produced, lds being the loadDashboardData calls then out
\* and lt the latest of them.  When the render throws, no error boundary catches
\* it and React unmounts the whole tree: the state of the instance is gone,
\* its requests stay out, its EventSource stays open if it was, and nothing
\* mounts again.
Commit(ld, an, us, buf, n, lds, lt) ==
    IF RenderThrows(ld, buf)
    THEN /\ mounted' = FALSE
         /\ crashed' = TRUE
         /\ dashLoading' = TRUE
         /\ analytics' = NoAnalytics
         /\ users' = {}
         /\ recentEvents' = <<>>
         /\ received' = 0
         /\ es' = "none"
         /\ leaked' = IF es = "open" THEN leaked + 1 ELSE leaked
         /\ loads' = Orphaned(lds)
         /\ mutations' = Orphaned(mutations)
         /\ latest' = NoLatest
    ELSE /\ dashLoading' = ld
         /\ analytics' = an
         /\ users' = us
         /\ recentEvents' = buf
         /\ received' = n
         /\ loads' = lds
         /\ latest' = lt
         /\ UNCHANGED <<mounted, crashed, es, leaked, mutations>>

\* AdminDashboard mounts: initial state, then the effect calls
\* loadDashboardData, which sets loading and sends the two requests, and
\* setupEventStream, which opens the stream or, when createEventStream
\* throws for want of a token, shows a toast
Mount(lim) ==
    /\ ~mounted
    /\ ~crashed
    /\ spent < lim
    /\ mounted' = TRUE
    /\ dashLoading' = TRUE
    /\ analytics' = NoAnalytics
    /\ users' = {}
    /\ recentEvents' = <<>>
    /\ received' = 0
    /\ loads' = loads \cup {NewLoad(spent + 1)}
    /\ spent' = spent + 1
    /\ latest' = [seq |-> spent + 1, outcome |-> "pending", data |-> {}]
    /\ es' = IF Truthy(token) THEN "open" ELSE "none"
    /\ dashOp' = [NoDashOp EXCEPT !.op = "mount", !.seq = spent + 1,
                                  !.live = TRUE]
    /\ streamOp' = [op |-> "mount", payload |-> "none",
                    toast |-> IF Truthy(token) THEN NoToast
                              ELSE Toast("Error",
                                         "Failed to establish real-time connection")]
    /\ UNCHANGED <<sessionVars, guardVars, gatewayVars, chatVars, crashed,
                   leaked, mutations, staleWrite>>

\* AdminDashboard unmounts: its state is gone; the effect returned no
\* cleanup, so its requests stay out and an open EventSource stays open
Unmount ==
    /\ mounted
    /\ mounted' = FALSE
    /\ dashLoading' = TRUE
    /\ analytics' = NoAnalytics
    /\ users' = {}
    /\ recentEvents' = <<>>
    /\ received' = 0
    /\ latest' = NoLatest
    /\ loads' = Orphaned(loads)
    /\ mutations' = Orphaned(mutations)
    /\ es' = "none"
    /\ leaked' = IF es = "open" THEN leaked + 1 ELSE leaked
    /\ dashOp' = [NoDashOp EXCEPT !.op = "unmount"]
    /\ streamOp' = [op |-> "unmount", payload |-> "none", toast |-> NoToast]
    /\ UNCHANGED <<sessionVars, guardVars, gatewayVars, chatVars, crashed,
                   spent, staleWrite>>

\* eventSource.onmessage with event.data p.  JSON.parse throws on a
\* malformed payload and the catch logs.  A parsed event is put in the
\* buffer and toasted when eventTypeMap knows its type; then React renders.
OnMessage(p, lim) ==
    /\ mounted
    /\ es = "open"
    /\ IF p = Malformed
       THEN UNCHANGED <<mounted, crashed, es, recentEvents, received, leaked,
                        dashLoading, analytics, users, loads, mutations,
                        latest>>
       ELSE /\ spent < lim
            /\ Commit(dashLoading, analytics, users,
                      PrependEvent(EventData(received + 1, p), recentEvents),
                      received + 1, loads, latest)
    /\ spent' = IF p = Malformed THEN spent ELSE spent + 1
    /\ streamOp' = [op |-> "message", payload |-> p,
                    toast |-> IF p = Malformed THEN NoToast ELSE EventToast(p)]
    /\ dashOp' = NoDashOp
    /\ UNCHANGED <<sessionVars, guardVars, gatewayVars, chatVars, staleWrite>>

\* Variant of OnError that leaves the EventSource open.  C20 must fail on it.
OnError_KeepsOpen ==
    /\ mounted
    /\ es = "open"
    /\ es' = "open"
    /\ streamOp' = [op |-> "error", payload |-> "none", toast |-> NoToast]
    /\ dashOp' = NoDashOp
    /\ UNCHANGED <<sessionVars, guardVars, gatewayVars, chatVars, mounted,
                   crashed, recentEvents, received, leaked, dashLoading,
                   analytics, users, loads, mutations, spent, latest,
                   staleWrite>>

\* eventSource.onerror: the handler closes the EventSource
OnError ==
    /\ mounted
    /\ es = "open"
    /\ es' = "closed"
    /\ streamOp' = [op |-> "error", payload |-> "none", toast |-> NoToast]
    /\ dashOp' = NoDashOp
    /\ UNCHANGED <<sessionVars, guardVars, gatewayVars, chatVars, mounted,
                   crashed, recentEvents, received, leaked, dashLoading,
                   analytics, users, loads, mutations, spent, latest,
                   staleWrite>>

\* onmessage of an EventSource left open by an instance that is gone: the
\* state update goes to the unmounted component and is lost, toast() is
\* called
LeakedOnMessage(p) ==
    /\ leaked > 0
    /\ streamOp' = [op |-> "leakedMessage", payload |-> p,
                    toast |-> IF p = Malformed THEN NoToast ELSE EventToast(p)]
    /\ dashOp' = NoDashOp
    /\ UNCHANGED <<sessionVars, guardVars, gatewayVars, chatVars, mounted,
                   crashed, es, recentEvents, received, leaked, dashLoading,
                   analytics, users, loads, mutations, spent, latest,
                   staleWrite>>

\* onerror of an EventSource left open by an instance that is gone
LeakedOnError ==
    /\ leaked > 0
    /\ leaked' = leaked - 1
    /\ streamOp' = [op |-> "leakedError", payload |-> "none", toast |-> NoToast]
    /\ dashOp' = NoDashOp
    /\ UNCHANGED <<sessionVars, guardVars, gatewayVars, chatVars, mounted,
                   crashed, es, recentEvents, received, dashLoading,
                   analytics, users, loads, mutations, spent, latest,
                   staleWrite>>

\* the user lists that GET /users can answer with
UserLists == {{"stud1"}, {"inst1", "stud1"}}

\* what request w of loadDashboardData can settle with: a rejection (no
\* response, or a status that request() throws on); a 200 whose body the
\* try block cannot use (for GET /users one without data, so that
\* usersResponse.data.filter throws; for GET /courses null, so that
\* coursesResponse.total throws); a 200 with {total, data}
LoadResponses(w) ==
    {[st |-> "arrived", ok |-> FALSE, usable |-> FALSE, total |-> 0, data |-> {}],
     [st |-> "arrived", ok |-> TRUE, usable |-> FALSE, total |-> 0, data |-> {}]}
    \cup (IF w = "users"
          THEN {[st |-> "arrived", ok |-> TRUE, usable |-> TRUE,
                 total |-> Cardinality(d), data |-> d] : d \in UserLists}
          ELSE {[st |-> "arrived", ok |-> TRUE, usable |-> TRUE,
                 total |-> CourseCount, data |-> {}]})

\* call l once request w has settled with r
Arrived(l, w, r) == [l EXCEPT ![w] = r]
BothArrived(l) == l.users.st = "arrived" /\ l.courses.st = "arrived"

\* the settlement of request w rejects Promise.all: the first rejection does
Rejects(l, w, r) == ~l.done /\ ~r.ok
\* the settlement of request w fulfils Promise.all: both have fulfilled
Fulfils(l, w, r) ==
    /\ ~l.done
    /\ BothArrived(Arrived(l, w, r))
    /\ Arrived(l, w, r).users.ok
    /\ Arrived(l, w, r).courses.ok

\* request w of call l settles with r at the code awaiting Promise.all.
\* When that fulfils Promise.all the try block continues: setAnalytics, setUsers, unless a body it cannot use
\* makes it throw into the catch.  When it rejects Promise.all the catch
\* runs.  The catch shows the toast; finally setLoading(false) on either
\* path.  Then React renders; it drops a state update of an instance that
\* is gone.
ArriveSub(l, w, r) ==
    LET l2 == Arrived(l, w, r)
        rejects == Rejects(l, w, r)
        fulfils == Fulfils(l, w, r)
        applies == fulfils /\ l2.users.usable /\ l2.courses.usable
        throws == fulfils /\ ~applies
        ends == rejects \/ fulfils
        l3 == [l2 EXCEPT !.done = l.done \/ ends,
                         !.toasts = IF rejects \/ throws THEN l.toasts + 1
                                    ELSE l.toasts]
        outcome == IF rejects THEN "failed"
                   ELSE IF applies THEN "applied"
                   ELSE IF throws THEN "threw"
                   ELSE IF l.done THEN "ignored"
                   ELSE "waiting"
        lds == IF BothArrived(l2) THEN loads \ {l} ELSE (loads \ {l}) \cup {l3}
    IN  /\ l \in loads
        /\ l[w].st = "sent"
        /\ IF l.live
           THEN /\ Commit(IF ends THEN FALSE ELSE dashLoading,
                          IF applies THEN Analytics(l2.users, l2.courses)
                          ELSE analytics,
                          IF applies THEN l2.users.data ELSE users,
                          recentEvents, received, lds,
                          IF l.seq = latest.seq /\ ends
                          THEN [seq |-> l.seq, outcome |-> outcome,
                                data |-> IF applies THEN l2.users.data ELSE {}]
                          ELSE latest)
                /\ UNCHANGED staleWrite
           ELSE /\ loads' = lds
                /\ staleWrite' = (staleWrite \/ ends)
                /\ UNCHANGED <<mounted, crashed, es, recentEvents, received,
                               leaked, dashLoading, analytics, users,
                               mutations, latest>>
        /\ dashOp' = [op |-> "arrive", seq |-> l.seq, sub |-> w,
                      outcome |-> outcome, live |-> l.live,
                      usersResp |-> l2.users, coursesResp |-> l2.courses,
                      loadToasts |-> l3.toasts,
                      toast |-> IF rejects \/ throws
                                THEN Toast("Error", "Failed to load dashboard data")
                                ELSE NoToast]
        /\ streamOp' = NoStreamOp
        /\ UNCHANGED <<sessionVars, guardVars, gatewayVars, chatVars,
                       spent>>

MutationKinds == {"createInstructor", "deleteUser"}

\* the admin submits the create-instructor form, or confirms the deletion of
\* a listed user (the dashboard is rendered): the request is sent
MutateStart(k, a, lim) ==
    /\ mounted
    /\ ~dashLoading
    /\ spent < lim
    /\ IF k = "deleteUser" THEN a \in users
       ELSE AccountRole(a) = "INSTRUCTOR"
    /\ mutations' = mutations \cup
          {[id |-> spent + 1, kind |-> k, target |-> a,
            live |-> TRUE]}
    /\ spent' = spent + 1
    /\ dashOp' = [NoDashOp EXCEPT !.op = "mutateStart", !.live = TRUE]
    /\ streamOp' = NoStreamOp
    /\ UNCHANGED <<sessionVars, guardVars, gatewayVars, chatVars, mounted,
                   crashed, es, recentEvents, received, leaked, dashLoading,
                   analytics, users, loads, latest, staleWrite>>

\* the request of handler call m settles.  On success the handler shows its
\* toast and calls loadDashboardData (not awaited),
\* which sets loading and sends two requests.  On failure it shows its toast.
MutateSettle(m, ok) ==
    /\ m \in mutations
    /\ mutations' = mutations \ {m}
    /\ IF ok
       THEN /\ loads' = loads \cup {[NewLoad(m.id) EXCEPT !.live = m.live]}
            /\ dashLoading' = IF m.live THEN TRUE ELSE dashLoading
            /\ staleWrite' = (staleWrite \/ ~m.live)
            /\ latest' = IF m.live
                         THEN [seq |-> m.id, outcome |-> "pending",
                               data |-> {}]
                         ELSE latest
       ELSE UNCHANGED <<loads, dashLoading, staleWrite, latest>>
    /\ dashOp' = [NoDashOp EXCEPT
                     !.op = "mutateSettle",
                     !.live = m.live,
                     !.seq = IF ok THEN m.id ELSE 0,
                     !.toast =
                        IF m.kind = "createInstructor"
                        THEN IF ok
                             THEN Toast("Success", "Instructor account created successfully")
                             ELSE Toast("Error", "Failed to create instructor account")
                        ELSE IF ok
                             THEN Toast("Success", "User deleted successfully")
                             ELSE Toast("Error", "Failed to delete user")]
    /\ streamOp' = NoStreamOp
    /\ UNCHANGED <<sessionVars, guardVars, gatewayVars, chatVars, mounted,
                   crashed, es, recentEvents, received, leaked, analytics,
                   users, spent>>

\* the steps of the dashboard in a run of at most lim mounts, handler calls
\* and well-formed events
AdminNext(lim) ==
    \/ Mount(lim)
    \/ Unmount
    \/ \E p \in Payloads : OnMessage(p, lim)
    \/ OnError
    \/ \E p \in Payloads : LeakedOnMessage(p)
    \/ LeakedOnError
    \/ \E l \in loads, w \in {"users", "courses"} :
          \E r \in LoadResponses(w) : ArriveSub(l, w, r)
    \/ \E k \in MutationKinds, a \in Accounts : MutateStart(k, a, lim)
    \/ \E m \in mutations, ok \in BOOLEAN : MutateSettle(m, ok)

\* the dashboard in runs long enough for two handler calls to overlap
AdminSpec == AdminInit /\ [][AdminNext(MaxWork)]_vars

\* the dashboard in shorter runs
FewSpec == AdminInit /\ [][AdminNext(FewWork)]_vars

\* ----------------------------------------------------------------- C18
\* C18: a malformed payload leaves the event buffer as it was, shows no
\* toast, leaves the stream open and the view mounted; and a well-formed
\* payload that arrives while the buffer is empty, after however many
\* malformed ones, leaves the buffer holding exactly that event.
C18_MalformedDropped ==
    [][/\ (streamOp'.op = "message" /\ streamOp'.payload = Malformed) =>
              /\ recentEvents' = recentEvents
              /\ streamOp'.toast = NoToast
              /\ es' = "open"
              /\ mounted'
       /\ (streamOp'.op = "message" /\ streamOp'.payload # Malformed
           /\ received = 0) =>
              /\ Len(recentEvents') = 1
              /\ recentEvents'[1].id = 1]_vars

\* ----------------------------------------------------------------- C19
\* C19: the n-th well-formed event of a mount leaves the buffer holding the
\* min(n, 10) events received last, the most recent first.
C19_BoundedBuffer ==
    [][(streamOp'.op = "message" /\ streamOp'.payload # Malformed) =>
           /\ Len(recentEvents') = Min(received + 1, 10)
           /\ \A i \in 1..Len(recentEvents') :
                 recentEvents'[i].id = received + 2 - i]_vars

\* ----------------------------------------------------------------- C20
\* C20: the error handler closes the stream, and a closed stream stays
\* closed and adds nothing to the buffer for as long as the view stays
\* mounted: nothing reopens it.
C20_NoReconnect ==
    [][/\ streamOp'.op = "error" => es' = "closed"
       /\ (es = "closed" /\ mounted') =>
              /\ es' = "closed"
              /\ recentEvents' = recentEvents
              /\ received' = received]_vars

\* the stream of the mounted view failed after an event had arrived, and a
\* response of loadDashboardData has arrived since
C20_Witness ==
    /\ mounted
    /\ es = "closed"
    /\ received = 1
    /\ Len(recentEvents) = 1
    /\ dashOp.op = "arrive"

\* ----------------------------------------------------------------- C21
\* C21: the number of open event streams equals the number of mounted admin
\* views as far as leaks go: no stream is open beyond the one of the view
\* that is mounted, and none is open when no view is mounted.
C21_NoLeakedStream ==
    leaked + (IF es = "open" THEN 1 ELSE 0) <= (IF mounted THEN 1 ELSE 0)

\* ----------------------------------------------------------------- C22
\* C22: a well-formed event that has just been received raised a toast if
\* and only if its type is one of the labelled event types; in both cases it
\* was put in the buffer.
C22_ToastIffLabelled ==
    (streamOp.op = "message" /\ streamOp.payload # Malformed) =>
        /\ (streamOp.toast # NoToast <=> streamOp.payload \in LabelledEventTypes)
        /\ mounted => /\ Len(recentEvents) > 0
                      /\ recentEvents[1].id = received

\* ----------------------------------------------------------------- C31
\* C31: no continuation of a request calls a state setter of a dashboard
\* instance that has been unmounted.
C31_NoWriteAfterUnmount ==
    ~staleWrite

\* ----------------------------------------------------------------- C33
\* C33: the settlement of a request of loadDashboardData leaves the instance
\* that made the call in a state that the two responses determine, whichever
\* came first.  When both have fulfilled with bodies the code can use,
\* analytics and users are what the two responses hold, no toast is shown
\* and loading is false.  The first rejection leaves analytics and users as
\* they were, shows the failure toast, the only one of the call, and ends
\* loading; the settlement of the other request changes nothing and shows
\* nothing.
C33_ParallelFetch ==
    [][(dashOp'.op = "arrive" /\ dashOp'.live) =>
          LET ur == dashOp'.usersResp
              cr == dashOp'.coursesResp
              this == IF dashOp'.sub = "users" THEN ur ELSE cr
              other == IF dashOp'.sub = "users" THEN cr ELSE ur
              bothOk == /\ ur.st = "arrived" /\ ur.ok /\ ur.usable
                        /\ cr.st = "arrived" /\ cr.ok /\ cr.usable
              firstFailure == ~this.ok /\ ~(other.st = "arrived" /\ ~other.ok)
              laterFailure == other.st = "arrived" /\ ~other.ok
          IN  /\ bothOk =>
                    /\ dashOp'.toast = NoToast
                    /\ dashOp'.loadToasts = 0
                    /\ analytics' = Analytics(ur, cr)
                    /\ users' = ur.data
                    /\ ~dashLoading'
              /\ firstFailure =>
                    /\ dashOp'.toast = Toast("Error", "Failed to load dashboard data")
                    /\ dashOp'.loadToasts = 1
                    /\ analytics' = analytics
                    /\ users' = users
                    /\ ~dashLoading'
              /\ laterFailure =>
                    /\ dashOp'.toast = NoToast
                    /\ dashOp'.loadToasts = 1
                    /\ UNCHANGED <<mounted, analytics, users, dashLoading>>]_vars

\* ----------------------------------------------------------------- C39
\* C39: when the mounted dashboard has no reload and no handler request in
\* flight and its most recently issued reload was applied, the user list
\* shown is the response to that reload.
C39_LastReloadWins ==
    (/\ mounted
     /\ loads = {}
     /\ mutations = {}
     /\ latest.outcome = "applied")
        => users = latest.data

\* ============================================================ course chat
\* at most this many sockets are opened by one mount, and at most this many
\* courseMessage events are delivered to it
MaxSockets == 2
MaxMessages == 2

Courses == {1, 2}
\* the userEnrollmentStatus prop: not passed (CourseManagement), or the
\* status of the student's enrollment
EnrollmentStatuses == {Undefined, "PENDING", "ACTIVE"}
\* the CourseMessages {id, text, user, createdAt} that the server sends,
\* named by their id
MessageIds == {"m1", "m2"}

\* what the user can have typed: sequences of characters
Whitespace == {" ", "\t"}
Inputs == {<<>>, <<" ">>, <<"h", "i">>, <<" ", "h", "i", "\t">>}

\* String.prototype.trim
RECURSIVE TrimStart(_)
TrimStart(t) ==
    IF t # <<>> /\ Head(t) \in Whitespace THEN TrimStart(Tail(t)) ELSE t
RECURSIVE TrimEnd(_)
TrimEnd(t) ==
    IF t # <<>> /\ t[Len(t)] \in Whitespace
    THEN TrimEnd(SubSeq(t, 1, Len(t) - 1)) ELSE t
Trim(t) == TrimEnd(TrimStart(t))

\* user.username of user u
UsernameOf(u) == "name of " \o u

\* Variant of CanAccessChat that admits a student whose enrollment is
\* pending.  C23 must fail on it.
CanAccessChat_PendingToo(rl, st) ==
    rl = "INSTRUCTOR" \/ st \in {"ACTIVE", "PENDING"}

\* canAccessChat
CanAccessChat(rl, st) == rl = "INSTRUCTOR" \/ st = "ACTIVE"

\* what CourseChat renders
ChatView ==
    IF ~CanAccessChat(role, enrollmentStatus) THEN "disabled"
    ELSE IF chatLoading THEN "spinner"
    ELSE "chat"

\* the socket of the React state is connected
SocketConnected == socket # NoSocket /\ socket.id \in connectedSockets

Emit(ev, c) ==
    [event |-> ev, courseId |-> c, userId |-> Undefined,
     username |-> Undefined, text |-> <<>>]

\* a student or an instructor is logged in and on a course page
ChatInit ==
    /\ \E t \in {"t1", Undefined} : LoggedIn("u1", t)
    /\ role \in {"STUDENT", "INSTRUCTOR"}
    /\ route = IF role = "STUDENT" THEN "/student/courses/:courseId"
               ELSE "/instructor/courses/:courseId"
    /\ rendered = "Authorized"
    /\ lastRedirect = "none"
    /\ GatewayAtRest
    /\ StreamAtRest
    /\ ChatAtRest
    /\ DashAtRest

\* the body of the effect, run for props (c, st) with state (sock, ld), the
\* sockets conn still connected, and the counters (opened, joins): without
\* access it ends the loading state; without a token it returns; otherwise
\* it opens a socket, stores it and emits joinCourse
RunChatEffect(opname, c, st, sock, conn, ld, opened, joins) ==
    IF ~CanAccessChat(role, st)
    THEN /\ chatLoading' = FALSE
         /\ socket' = sock
         /\ connectedSockets' = conn
         /\ joinState' = IF sock = NoSocket THEN "none" ELSE "disconnected"
         /\ socketsOpened' = opened
         /\ joinsEmitted' = joins
         /\ chatOp' = [op |-> opname, emit |-> NoEmit, delivered |-> "none",
                       toast |-> NoToast]
    ELSE IF ~Truthy(token)
    THEN /\ chatLoading' = ld
         /\ socket' = sock
         /\ connectedSockets' = conn
         /\ joinState' = IF sock = NoSocket THEN "none" ELSE "disconnected"
         /\ socketsOpened' = opened
         /\ joinsEmitted' = joins
         /\ chatOp' = [op |-> opname, emit |-> NoEmit, delivered |-> "none",
                       toast |-> NoToast]
    ELSE /\ opened < MaxSockets
         /\ chatLoading' = ld
         /\ socket' = [id |-> opened + 1, course |-> c]
         /\ connectedSockets' = conn \cup {opened + 1}
         /\ joinState' = "connecting"
         /\ socketsOpened' = opened + 1
         /\ joinsEmitted' = joins + 1
         /\ chatOp' = [op |-> opname, emit |-> Emit("joinCourse", c),
                       delivered |-> "none", toast |-> NoToast]

\* CourseChat mounts with props (c, st): initial state, then the effect
ChatMount(c, st) ==
    /\ ~chatMounted
    /\ chatMounted' = TRUE
    /\ courseId' = c
    /\ enrollmentStatus' = st
    /\ messages' = <<>>
    /\ newMessage' = <<>>
    /\ RunChatEffect("mount", c, st, NoSocket, {}, TRUE, 0, 0)
    /\ UNCHANGED <<sessionVars, guardVars, gatewayVars, streamVars, dashVars>>

\* the parent renders CourseChat with other props (c, st): when courseId or
\* canAccessChat changed, the cleanup of the last effect run disconnects the
\* socket that run opened, and the effect runs again; the state is kept
ChatPropsChange(c, st) ==
    /\ chatMounted
    /\ <<c, st>> # <<courseId, enrollmentStatus>>
    /\ courseId' = c
    /\ enrollmentStatus' = st
    /\ IF c # courseId
          \/ CanAccessChat(role, st) # CanAccessChat(role, enrollmentStatus)
       THEN RunChatEffect("propsChange", c, st, socket,
                          IF SocketConnected
                          THEN connectedSockets \ {socket.id}
                          ELSE connectedSockets,
                          chatLoading, socketsOpened, joinsEmitted)
       ELSE /\ chatOp' = [op |-> "propsChange", emit |-> NoEmit,
                          delivered |-> "none", toast |-> NoToast]
            /\ UNCHANGED <<socket, connectedSockets, joinState, chatLoading,
                           socketsOpened, joinsEmitted>>
    /\ UNCHANGED <<sessionVars, guardVars, gatewayVars, streamVars, dashVars,
                   chatMounted, messages, newMessage>>

\* Variant of ChatUnmount without the cleanup.  C29 must fail on it.
ChatUnmount_NoCleanup ==
    /\ chatMounted
    /\ chatMounted' = FALSE
    /\ courseId' = 0
    /\ enrollmentStatus' = Undefined
    /\ socket' = NoSocket
    /\ connectedSockets' = connectedSockets
    /\ joinState' = "none"
    /\ messages' = <<>>
    /\ newMessage' = <<>>
    /\ chatLoading' = TRUE
    /\ chatOp' = [op |-> "unmount", emit |-> NoEmit, delivered |-> "none",
                  toast |-> NoToast]
    /\ UNCHANGED <<sessionVars, guardVars, gatewayVars, streamVars, dashVars,
                   socketsOpened, joinsEmitted>>

\* CourseChat unmounts: the cleanup of the last effect run disconnects the
\* socket that run opened; the state of the component is gone
ChatUnmount ==
    /\ chatMounted
    /\ chatMounted' = FALSE
    /\ courseId' = 0
    /\ enrollmentStatus' = Undefined
    /\ socket' = NoSocket
    /\ connectedSockets' = IF SocketConnected
                           THEN connectedSockets \ {socket.id}
                           ELSE connectedSockets
    /\ joinState' = "none"
    /\ messages' = <<>>
    /\ newMessage' = <<>>
    /\ chatLoading' = TRUE
    /\ chatOp' = [op |-> "unmount", emit |-> NoEmit, delivered |-> "none",
                  toast |-> NoToast]
    /\ UNCHANGED <<sessionVars, guardVars, gatewayVars, streamVars, dashVars,
                   socketsOpened, joinsEmitted>>

\* the socket delivers joinCourseSuccess, whether or not a join is awaiting
\* its answer: both listeners run, the first emits join-course, the second
\* ends the loading state
OnJoinCourseSuccess ==
    /\ chatMounted
    /\ SocketConnected
    /\ joinState' = "joined"
    /\ chatLoading' = FALSE
    /\ chatOp' = [op |-> "joinCourseSuccess", emit |-> Emit("join-course", socket.course),
                  delivered |-> "none", toast |-> NoToast]
    /\ UNCHANGED <<sessionVars, guardVars, gatewayVars, streamVars, dashVars,
                   chatMounted, courseId, enrollmentStatus, socket,
                   connectedSockets, messages, newMessage, socketsOpened,
                   joinsEmitted>>

\* the socket delivers joinCourseError, whether or not a join is awaiting
\* its answer: the listener shows the toast and ends the loading state
OnJoinCourseError ==
    /\ chatMounted
    /\ SocketConnected
    /\ joinState' = "joinFailed"
    /\ chatLoading' = FALSE
    /\ chatOp' = [op |-> "joinCourseError", emit |-> NoEmit, delivered |-> "none",
                  toast |-> Toast("Error", "Failed to connect to course chat")]
    /\ UNCHANGED <<sessionVars, guardVars, gatewayVars, streamVars, dashVars,
                   chatMounted, courseId, enrollmentStatus, socket,
                   connectedSockets, messages, newMessage, socketsOpened,
                   joinsEmitted>>

\* Variant of OnCourseMessage that drops a message it already holds.  C27
\* must fail on it.
OnCourseMessage_Deduplicates(m) ==
    /\ chatMounted
    /\ SocketConnected
    /\ Len(messages) < MaxMessages
    /\ messages' = IF \E i \in 1..Len(messages) : messages[i] = m
                   THEN messages ELSE Append(messages, m)
    /\ chatOp' = [op |-> "courseMessage", emit |-> NoEmit, delivered |-> m,
                  toast |-> NoToast]
    /\ UNCHANGED <<sessionVars, guardVars, gatewayVars, streamVars, dashVars,
                   chatMounted, courseId, enrollmentStatus, socket,
                   connectedSockets, joinState, newMessage, chatLoading,
                   socketsOpened, joinsEmitted>>

\* the socket delivers courseMessage with message m
OnCourseMessage(m) ==
    /\ chatMounted
    /\ SocketConnected
    /\ Len(messages) < MaxMessages
    /\ messages' = Append(messages, m)
    /\ chatOp' = [op |-> "courseMessage", emit |-> NoEmit, delivered |-> m,
                  toast |-> NoToast]
    /\ UNCHANGED <<sessionVars, guardVars, gatewayVars, streamVars, dashVars,
                   chatMounted, courseId, enrollmentStatus, socket,
                   connectedSockets, joinState, newMessage, chatLoading,
                   socketsOpened, joinsEmitted>>

\* the socket delivers sendCourseMessageError
OnSendCourseMessageError ==
    /\ chatMounted
    /\ SocketConnected
    /\ chatOp' = [op |-> "sendCourseMessageError", emit |-> NoEmit,
                  delivered |-> "none",
                  toast |-> Toast("Error", "Failed to send message")]
    /\ UNCHANGED <<sessionVars, guardVars, gatewayVars, streamVars, dashVars,
                   chatMounted, courseId, enrollmentStatus, socket,
                   connectedSockets, joinState, messages, newMessage,
                   chatLoading, socketsOpened, joinsEmitted>>

\* the user edits the input (the form is rendered)
OnChangeInput(t) ==
    /\ chatMounted
    /\ ChatView = "chat"
    /\ t # newMessage
    /\ newMessage' = t
    /\ chatOp' = [op |-> "input", emit |-> NoEmit, delivered |-> "none",
                  toast |-> NoToast]
    /\ UNCHANGED <<sessionVars, guardVars, gatewayVars, streamVars, dashVars,
                   chatMounted, courseId, enrollmentStatus, socket,
                   connectedSockets, joinState, messages, chatLoading,
                   socketsOpened, joinsEmitted>>

\* Variant of HandleSendMessage that keeps the input and shows the sent
\* message at once.  C28 must fail on it.
HandleSendMessage_LocalEcho ==
    /\ chatMounted
    /\ ChatView = "chat"
    /\ IF Trim(newMessage) = <<>> \/ socket = NoSocket \/ user = NoUser
       THEN /\ chatOp' = [op |-> "submit", emit |-> NoEmit, delivered |-> "none",
                          toast |-> NoToast]
            /\ UNCHANGED <<newMessage, messages>>
       ELSE /\ chatOp' = [op |-> "submit",
                          emit |-> [event |-> "sendCourseMessage",
                                    courseId |-> courseId, userId |-> user,
                                    username |-> UsernameOf(user),
                                    text |-> Trim(newMessage)],
                          delivered |-> "none", toast |-> NoToast]
            /\ newMessage' = newMessage
            /\ messages' = Append(messages, "local")
    /\ UNCHANGED <<sessionVars, guardVars, gatewayVars, streamVars, dashVars,
                   chatMounted, courseId, enrollmentStatus, socket,
                   connectedSockets, joinState, chatLoading,
                   socketsOpened, joinsEmitted>>

\* the user submits the form: handleSendMessage
HandleSendMessage ==
    /\ chatMounted
    /\ ChatView = "chat"
    /\ IF Trim(newMessage) = <<>> \/ socket = NoSocket \/ user = NoUser
       THEN /\ chatOp' = [op |-> "submit", emit |-> NoEmit, delivered |-> "none",
                          toast |-> NoToast]
            /\ UNCHANGED newMessage
       ELSE /\ chatOp' = [op |-> "submit",
                          emit |-> [event |-> "sendCourseMessage",
                                    courseId |-> courseId, userId |-> user,
                                    username |-> UsernameOf(user),
                                    text |-> Trim(newMessage)],
                          delivered |-> "none", toast |-> NoToast]
            /\ newMessage' = <<>>
    /\ UNCHANGED <<sessionVars, guardVars, gatewayVars, streamVars, dashVars,
                   chatMounted, courseId, enrollmentStatus, socket,
                   connectedSockets, joinState, messages, chatLoading,
                   socketsOpened, joinsEmitted>>

\* the token in storage is replaced or removed while the chat is shown:
\* ApiClient.setTokenInStorage or removeTokenFromStorage, run by this tab or
\* by another tab of the browser
ChatTokenInStorage(t) ==
    /\ t # token
    /\ token' = t
    /\ chatOp' = [op |-> "storage", emit |-> NoEmit, delivered |-> "none",
                  toast |-> NoToast]
    /\ UNCHANGED <<user, loading, restorePc, inFlight, lastOp, bootToken,
                   meRequests, restoreAssigns, popSince, logoutsDone,
                   gatewayError, guardVars, gatewayVars, streamVars, dashVars,
                   chatMounted, courseId, enrollmentStatus, socket,
                   connectedSockets, joinState, messages, newMessage,
                   chatLoading, socketsOpened, joinsEmitted>>

ChatNext ==
    \/ \E t \in {"t1", NoToken} : ChatTokenInStorage(t)
    \/ \E c \in Courses, st \in EnrollmentStatuses : ChatMount(c, st)
    \/ \E c \in Courses, st \in EnrollmentStatuses : ChatPropsChange(c, st)
    \/ ChatUnmount
    \/ OnJoinCourseSuccess
    \/ OnJoinCourseError
    \/ \E m \in MessageIds : OnCourseMessage(m)
    \/ OnSendCourseMessageError
    \/ \E t \in Inputs : OnChangeInput(t)
    \/ HandleSendMessage

ChatSpec == ChatInit /\ [][ChatNext]_vars

\* ----------------------------------------------------------------- C23
\* C23: while the user is not an instructor and the enrollment status is not
\* ACTIVE, the disabled view is shown, no socket of the view is connected,
\* and no step opens a socket or emits anything (a join request in
\* particular).
C23_NoAccessNoChannel ==
    /\ []((chatMounted /\ role # "INSTRUCTOR" /\ enrollmentStatus # "ACTIVE") =>
              /\ ChatView = "disabled"
              /\ connectedSockets = {}
              /\ chatOp.emit = NoEmit)
    /\ [][(chatMounted' /\ role' # "INSTRUCTOR" /\ enrollmentStatus' # "ACTIVE") =>
              /\ (chatMounted => socketsOpened' = socketsOpened)
              /\ (chatMounted => joinsEmitted' = joinsEmitted)
              /\ (~chatMounted => socketsOpened' = 0 /\ joinsEmitted' = 0)]_vars

\* a student whose enrollment is pending has the chat mounted
C23_Witness ==
    /\ chatMounted
    /\ role = "STUDENT"
    /\ enrollmentStatus = "PENDING"
    /\ chatOp.op = "mount"
    /\ token \in Tokens
    /\ socket = NoSocket
    /\ ~chatLoading

\* ----------------------------------------------------------------- C24
\* C24: while the chat of a student with an ACTIVE enrollment is mounted,
\* the mount has emitted exactly one joinCourse, and at most one join is
\* awaiting its answer.
C24_OneJoinPerMount ==
    (chatMounted /\ role = "STUDENT" /\ enrollmentStatus = "ACTIVE") =>
        /\ joinsEmitted = 1
        /\ Cardinality(connectedSockets) <= 1

\* ----------------------------------------------------------------- C25
\* C25: the step that handles joinCourseError shows a toast, and while the
\* join stands rejected no sendCourseMessage is emitted.
C25_JoinFailedDisablesSend ==
    /\ chatOp.op = "joinCourseError" => chatOp.toast # NoToast
    /\ joinState = "joinFailed" => chatOp.emit.event # "sendCourseMessage"

\* ----------------------------------------------------------------- C26
\* C26: a step emits sendCourseMessage only if the trimmed input is not
\* empty and the channel is established (the socket is connected and the
\* join was acknowledged), and the payload is {courseId, userId, username,
\* text} with the view's course, the current user and the trimmed input.
C26_SendGuardAndPayload ==
    [][chatOp'.emit.event = "sendCourseMessage" =>
           /\ Trim(newMessage) # <<>>
           /\ SocketConnected
           /\ joinState = "joined"
           /\ chatOp'.emit = [event |-> "sendCourseMessage",
                              courseId |-> courseId, userId |-> user,
                              username |-> UsernameOf(user),
                              text |-> Trim(newMessage)]]_vars

\* ----------------------------------------------------------------- C27
\* C27: a delivery of courseMessage appends the delivered message at the end
\* of the sequence; no other step during the mount changes the sequence; a
\* mount starts with the empty sequence.
C27_AppendInDeliveryOrder ==
    [][/\ chatOp'.op = "courseMessage" =>
              messages' = Append(messages, chatOp'.delivered)
       /\ chatOp'.op = "mount" => messages' = <<>>
       /\ chatOp'.op \notin {"courseMessage", "mount", "unmount"} =>
              messages' = messages]_vars

\* the same message was delivered twice and is held twice
C27_Witness ==
    /\ chatMounted
    /\ chatOp.op = "courseMessage"
    /\ chatOp.delivered = "m1"
    /\ messages = <<"m1", "m1">>

\* ----------------------------------------------------------------- C28
\* C28: the step that emits sendCourseMessage empties the input and leaves
\* the message sequence as it was; the sequence only ever holds messages
\* that the socket delivered.
C28_SendClearsInputNoEcho ==
    /\ [](\A i \in 1..Len(messages) : messages[i] \in MessageIds)
    /\ [][chatOp'.emit.event = "sendCourseMessage" =>
              /\ newMessage' = <<>>
              /\ messages' = messages]_vars

\* a message was sent on a joined channel; nothing has been delivered
C28_Witness ==
    /\ chatOp.op = "submit"
    /\ chatOp.emit.event = "sendCourseMessage"
    /\ chatOp.emit.text = <<"h", "i">>
    /\ joinState = "joined"
    /\ newMessage = <<>>
    /\ messages = <<>>

\* ----------------------------------------------------------------- C29
\* C29: when no chat view is mounted, no socket that the view opened is
\* connected; while it is mounted, at most the socket opened last is.
C29_SocketsDisconnected ==
    /\ ~chatMounted => connectedSockets = {}
    /\ Cardinality(connectedSockets) <= 1
    /\ \A id \in connectedSockets : id = socket.id

\* the view opened two sockets and has unmounted
C29_Witness ==
    /\ ~chatMounted
    /\ chatOp.op = "unmount"
    /\ socketsOpened = 2
    /\ connectedSockets = {}

\* ----------------------------------------------------------------- C30
\* C30: the only events the chat emits are joinCourse and
\* sendCourseMessage; every socket opened has had its joinCourse emitted,
\* by the step that opened it and for the course of the view.
C30_OnlyJoinAndSend ==
    /\ chatOp.emit.event \in {"none", "joinCourse", "sendCourseMessage"}
    /\ joinsEmitted = socketsOpened
    /\ chatOp.emit.event = "joinCourse" =>
           /\ chatOp.op \in {"mount", "propsChange"}
           /\ joinState = "connecting"
           /\ chatOp.emit = Emit("joinCourse", courseId)

\* the chat under the assumption that the server answers every join request
\* it receives
FairChatSpec ==
    /\ ChatSpec
    /\ WF_vars(OnJoinCourseSuccess \/ OnJoinCourseError)

\* ----------------------------------------------------------------- C37
\* C37: a mounted chat view that shows the spinner eventually shows
\* something else (the disabled view, or the chat after the join was
\* accepted or rejected) or is unmounted, provided the server answers every
\* join request.
C37_MountLeavesLoading ==
    (chatMounted /\ ChatView = "spinner")
        ~> (~chatMounted \/ ChatView # "spinner")

\* ----------------------------------------------------------------- C38
\* C38: a chat view never has two connected sockets, and the only socket
\* that can be connected is the one of the last effect run (the one held in
\* the state); a message that has just been sent carries the courseId of the
\* current props, which is the course the socket in the state was opened
\* for, and that socket is the last one opened and is connected.
C38_OneSocket ==
    /\ Cardinality(connectedSockets) <= 1
    /\ connectedSockets \subseteq {socket.id}
    /\ chatOp.emit.event = "sendCourseMessage"
          => /\ chatOp.emit.courseId = courseId
             /\ socket.course = courseId
             /\ socket.id = socketsOpened
             /\ connectedSockets = {socket.id}

====
